---- MODULE Spec2Model ----
(***************************************************************************)
(* A state-machine model of the eb-bot Telegram channel bot:               *)
(*   - the in-process dedup stores and the discussion mapping table of     *)
(*     bot_logic.py, with the channel-photo handler and its detached       *)
(*     comment task,                                                       *)
(*   - the daily-poll scheduler of poller.py over the tables of db.py.     *)
(* Time is an integer count of half-seconds (the smallest delay of the     *)
(* retry schedule is 0.5 s).                                               *)
(***************************************************************************)
EXTENDS Integers, Sequences, FiniteSets, TLC

VARIABLES
    now,                           \* time.time(), in ticks of 0.5 s
    longWaits,                     \* number of long idle periods so far
    _PROCESSED_CHANNEL_MESSAGES,   \* dict (chat_id, message_id) -> ts
    _PROCESSED_MEDIA_GROUPS,       \* dict media_group_id -> ts
    _DISCUSSION_MAP,               \* dict (chat_id, message_id) -> DiscussionRef
    handlers,                      \* invocations of handle_channel_photo_post
    sent,                          \* bot.send_message calls issued so far
    forwards,                      \* auto-forwards put so far (history)
    db_pool,                       \* bot_data["db_pool"] / state.db_pool is set
    posts,                         \* table posts
    daily_poll,                    \* table daily_poll: (channel_id, poll_date) -> row
    polls,                         \* bot.send_poll calls that succeeded so far
    last_run,                      \* the reason the last run_poll_once returned
    ai_text,                       \* the text the AI service answers with
    daily_poll_options_count,      \* settings.daily_poll_options_count
    invocations,                   \* the invocations of run_poll_once in progress
    telegram_app,                  \* main.telegram_app is set (the Application is started)
    poller_task,                   \* main.poller_task: the task that runs poller_loop
    requests,                      \* the requests POST /webhook/{path_secret} received
    shutdown,                      \* where on_shutdown stands
    err                            \* the error of get_settings_or_error(), or None

vars == <<now, longWaits, _PROCESSED_CHANNEL_MESSAGES, _PROCESSED_MEDIA_GROUPS,
          _DISCUSSION_MAP, handlers, sent, forwards, db_pool, posts, daily_poll, polls,
          last_run, ai_text, daily_poll_options_count, invocations, telegram_app, poller_task, requests, shutdown, err>>

---------------------------------------------------------------------------
(* Bounds of the model *)

MaxPosts == 1          \* Spec: channel photo updates delivered
MaxForwards == 1       \* Spec: discussion auto-forwards that are put
MaxUpdates == 3        \* SpecDedup: channel photo updates delivered
MaxIdle == 2           \* SpecDedup: long idle periods (about one TTL each)
MaxLookupPosts == 1    \* SpecMap: channel photo updates delivered
MaxPuts == 2           \* SpecMap: discussion auto-forwards that are put
MaxMapWaits == 1       \* SpecMap: long idle periods (about one TTL each)
MaxPollPosts == 2      \* SpecPoll: channel photo updates delivered
MaxPollWaits == 1      \* SpecPoll: idle periods of twelve hours
MaxPolls == 2          \* SpecPoll, SpecBacklog: polls published
MaxBacklogPosts == 3   \* SpecBacklog: channel photo updates delivered
MaxBacklogWaits == 1   \* SpecBacklog: idle periods of a day

---------------------------------------------------------------------------
(* Program constants *)

TicksPerSecond == 2
_DISCUSSION_TTL_S == 60 * 60 * TicksPerSecond
_MEDIA_GROUP_TTL_S == 6 * 60 * 60 * TicksPerSecond
_CHANNEL_MSG_TTL_S == 6 * 60 * 60 * TicksPerSecond
\* mutant: the third delay is 1.5 s
delays_short_third == <<1, 2, 3, 8, 16, 24>>

\* delays = [0.5, 1, 2, 4, 8, 12] seconds
delays == <<1, 2, 4, 8, 16, 24>>

\* Python's None, for an optional string and for an optional int or float
None == "None"
NoneInt == 0 - 1

\* a usual answer of the AI service: two lines, "yes" and "no"
UsualReply == <<"y", "e", "s", "\n", "n", "o">>

\* who invokes run_poll_once: the background poller_loop and the
\* administrative trigger
Invokers == {"poller", "admin"}

\* an invocation that has not started
Idle ==
    [pc |-> "idle", force |-> FALSE, due |-> <<>>, post |-> NoneInt, question |-> None,
     options |-> <<>>, poll_message_id |-> NoneInt, reason |-> None]

NoInvocations == [i \in Invokers |-> Idle]

\* main.poller_task; pc "None": not created; "run": inside run_poll_once or
\* about to call it; "sleep": in asyncio.sleep(60); "cancelled".  ticks: calls
\* of run_poll_once so far; log: "Poller loop error" entries so far
NoTask == [pc |-> "None", wake |-> NoneInt, ticks |-> 0, log |-> 0]

\* The service is up and its lifecycle is not followed: the Application is
\* started, no webhook request is recorded, on_shutdown has not been called.
ServiceUp ==
    /\ telegram_app = TRUE
    /\ poller_task = NoTask
    /\ requests = <<>>
    /\ shutdown = "idle"
    /\ err = None

\* settings.allowed_channel_ids: the configured allow-list
allowed_channel_ids == {"C"}

---------------------------------------------------------------------------
(* Updates the webhook may deliver *)

\* Channel posts with a photo (the PHOTO & CHANNEL filter of main.py).
\* Messages 100 and 101 are two photos of one album.
ChannelPosts ==
    { [chat |-> "C", message_id |-> 100, media_group_id |-> "g", photo |-> TRUE,  caption |-> "sunset"],
      [chat |-> "C", message_id |-> 101, media_group_id |-> "g", photo |-> TRUE,  caption |-> None],
      [chat |-> "C", message_id |-> 102, media_group_id |-> "h", photo |-> TRUE,  caption |-> None],
      [chat |-> "C", message_id |-> 103, media_group_id |-> None, photo |-> TRUE, caption |-> None],
      [chat |-> "X", message_id |-> 100, media_group_id |-> None, photo |-> TRUE, caption |-> None] }

\* the posts whose auto-forwards the discussion group sees
ForwardedPosts == {msg \in ChannelPosts : msg.chat = "C" /\ msg.message_id \in {100, 103}}

\* the post (C,100) alone
FirstPost == {msg \in ChannelPosts : msg.chat = "C" /\ msg.message_id = 100}

\* the posts the poll ledger sees: two single photos
PollPosts == {msg \in ChannelPosts : msg.chat = "C" /\ msg.message_id \in {102, 103}}

\* the posts the poller sees over two days: three photos of channel C
BacklogPosts == {msg \in ChannelPosts : msg.chat = "C" /\ msg.message_id \in {100, 102, 103}}

\* message.forward_origin when the message carries none
NoOrigin == [chat |-> None, message_id |-> NoneInt]

\* Messages of the linked discussion group "D".
GroupMessages ==
    { \* auto-forward of (C,100), legacy forward fields
      [chat |-> "D", message_id |-> 555, is_automatic_forward |-> TRUE,
       forward_from_chat |-> "C", forward_from_message_id |-> 100, forward_origin |-> NoOrigin],
      \* auto-forward of (C,103), structured origin
      [chat |-> "D", message_id |-> 556, is_automatic_forward |-> TRUE,
       forward_from_chat |-> None, forward_from_message_id |-> NoneInt,
       forward_origin |-> [chat |-> "C", message_id |-> 103]],
      \* a second auto-forward of (C,100)
      [chat |-> "D", message_id |-> 557, is_automatic_forward |-> TRUE,
       forward_from_chat |-> None, forward_from_message_id |-> NoneInt,
       forward_origin |-> [chat |-> "C", message_id |-> 100]],
      \* an ordinary comment, and an automatic forward without an origin
      [chat |-> "D", message_id |-> 558, is_automatic_forward |-> FALSE,
       forward_from_chat |-> None, forward_from_message_id |-> NoneInt, forward_origin |-> NoOrigin],
      [chat |-> "D", message_id |-> 559, is_automatic_forward |-> TRUE,
       forward_from_chat |-> None, forward_from_message_id |-> NoneInt, forward_origin |-> NoOrigin] }

---------------------------------------------------------------------------
(* Python dict helpers *)

DictPut(d, k, v) == [x \in (DOMAIN d) \cup {k} |-> IF x = k THEN v ELSE d[x]]
DictPop(d, k) == [x \in (DOMAIN d) \ {k} |-> d[x]]
EmptyDict == [x \in {} |-> None]

---------------------------------------------------------------------------
(* Deduplication store *)

\* mutant: the TTL's last instant is already stale
_is_recent_strict(ts, ttl_s) == (now - ts) < ttl_s

\* mutant: a mark never expires
_is_recent_forever(ts, ttl_s) == ts <= now

_is_recent(ts, ttl_s) == (now - ts) <= ttl_s

\* mutant: a duplicate sighting refreshes the mark
_mark_processed_channel_message_refreshing(chat_id, message_id) ==
    LET key == <<chat_id, message_id>>
        hit == /\ key \in DOMAIN _PROCESSED_CHANNEL_MESSAGES
               /\ _is_recent(_PROCESSED_CHANNEL_MESSAGES[key], _CHANNEL_MSG_TTL_S)
    IN  [ret |-> hit, store |-> DictPut(_PROCESSED_CHANNEL_MESSAGES, key, now)]

\* mutant: the check does not mark the key
_mark_processed_channel_message_unmarked(chat_id, message_id) ==
    LET key == <<chat_id, message_id>>
        hit == /\ key \in DOMAIN _PROCESSED_CHANNEL_MESSAGES
               /\ _is_recent(_PROCESSED_CHANNEL_MESSAGES[key], _CHANNEL_MSG_TTL_S)
    IN  [ret |-> hit, store |-> _PROCESSED_CHANNEL_MESSAGES]

\* ret: the function's result; store: _PROCESSED_CHANNEL_MESSAGES afterwards
_mark_processed_channel_message(chat_id, message_id) ==
    LET key == <<chat_id, message_id>>
        hit == /\ key \in DOMAIN _PROCESSED_CHANNEL_MESSAGES
               /\ _is_recent(_PROCESSED_CHANNEL_MESSAGES[key], _CHANNEL_MSG_TTL_S)
    IN  IF hit
        THEN [ret |-> TRUE, store |-> _PROCESSED_CHANNEL_MESSAGES]
        ELSE [ret |-> FALSE, store |-> DictPut(_PROCESSED_CHANNEL_MESSAGES, key, now)]

\* mutant: the album is marked but never skipped
_should_skip_media_group_never(media_group_id) ==
    [ret |-> FALSE, store |-> DictPut(_PROCESSED_MEDIA_GROUPS, media_group_id, now)]

\* ret: the function's result; store: _PROCESSED_MEDIA_GROUPS afterwards
_should_skip_media_group(media_group_id) ==
    LET hit == /\ media_group_id \in DOMAIN _PROCESSED_MEDIA_GROUPS
               /\ _is_recent(_PROCESSED_MEDIA_GROUPS[media_group_id], _MEDIA_GROUP_TTL_S)
    IN  IF hit
        THEN [ret |-> TRUE, store |-> _PROCESSED_MEDIA_GROUPS]
        ELSE [ret |-> FALSE, store |-> DictPut(_PROCESSED_MEDIA_GROUPS, media_group_id, now)]

---------------------------------------------------------------------------
(* Discussion mapping table *)

DiscussionRef(discussion_chat_id, discussion_message_id, ts) ==
    [discussion_chat_id |-> discussion_chat_id,
     discussion_message_id |-> discussion_message_id,
     ts |-> ts]

\* "no ref": what _discussion_map_get returns for None
NoRef == DiscussionRef(None, NoneInt, NoneInt)

\* mutant: an existing entry is kept (setdefault)
_discussion_map_put_if_absent(channel_chat_id, channel_message_id, discussion_chat_id, discussion_message_id) ==
    IF <<channel_chat_id, channel_message_id>> \in DOMAIN _DISCUSSION_MAP
    THEN _DISCUSSION_MAP
    ELSE DictPut(_DISCUSSION_MAP, <<channel_chat_id, channel_message_id>>,
                 DiscussionRef(discussion_chat_id, discussion_message_id, now))

\* mutant: the put also replaces the refs of the other posts of the channel
_discussion_map_put_channel_wide(channel_chat_id, channel_message_id, discussion_chat_id, discussion_message_id) ==
    [k \in (DOMAIN _DISCUSSION_MAP) \cup {<<channel_chat_id, channel_message_id>>} |->
        IF k[1] = channel_chat_id
        THEN DiscussionRef(discussion_chat_id, discussion_message_id, now)
        ELSE _DISCUSSION_MAP[k]]

\* the table after the put
_discussion_map_put(channel_chat_id, channel_message_id, discussion_chat_id, discussion_message_id) ==
    DictPut(_DISCUSSION_MAP, <<channel_chat_id, channel_message_id>>,
            DiscussionRef(discussion_chat_id, discussion_message_id, now))

\* mutant: a ref expires an instant early (>= for >)
_discussion_map_get_early(channel_chat_id, channel_message_id) ==
    LET key == <<channel_chat_id, channel_message_id>>
    IN  IF key \notin DOMAIN _DISCUSSION_MAP
        THEN [ret |-> NoRef, map |-> _DISCUSSION_MAP]
        ELSE IF now - _DISCUSSION_MAP[key].ts >= _DISCUSSION_TTL_S
             THEN [ret |-> NoRef, map |-> DictPop(_DISCUSSION_MAP, key)]
             ELSE [ret |-> _DISCUSSION_MAP[key], map |-> _DISCUSSION_MAP]

\* mutant: the lookup goes by the channel alone, whatever the message
_discussion_map_get_any_message(channel_chat_id, channel_message_id) ==
    LET K == {key \in DOMAIN _DISCUSSION_MAP : key[1] = channel_chat_id}
    IN  IF K = {}
        THEN [ret |-> NoRef, map |-> _DISCUSSION_MAP]
        ELSE [ret |-> _DISCUSSION_MAP[CHOOSE key \in K : TRUE], map |-> _DISCUSSION_MAP]

\* ret: the ref or None; map: the table afterwards
_discussion_map_get(channel_chat_id, channel_message_id) ==
    LET key == <<channel_chat_id, channel_message_id>>
    IN  IF key \notin DOMAIN _DISCUSSION_MAP
        THEN [ret |-> NoRef, map |-> _DISCUSSION_MAP]
        ELSE IF now - _DISCUSSION_MAP[key].ts > _DISCUSSION_TTL_S
             THEN [ret |-> NoRef, map |-> DictPop(_DISCUSSION_MAP, key)]
             ELSE [ret |-> _DISCUSSION_MAP[key], map |-> _DISCUSSION_MAP]

\* what _extract_origin_channel_and_msg_id returns for None
NoOriginKey == <<None, NoneInt>>

\* (channel_chat_id, channel_message_id) of an auto-forward, or None
_extract_origin_channel_and_msg_id(message) ==
    IF message.forward_from_chat # None /\ message.forward_from_message_id # NoneInt
    THEN <<message.forward_from_chat, message.forward_from_message_id>>
    ELSE IF /\ message.forward_origin # NoOrigin
            /\ message.forward_origin.chat # None
            /\ message.forward_origin.message_id # NoneInt
         THEN <<message.forward_origin.chat, message.forward_origin.message_id>>
         ELSE NoOriginKey

---------------------------------------------------------------------------
(* Caption pipeline: handle_channel_photo_post and its detached task *)

\* generate_funny_caption's text for a post (a black box; never the post's own caption)
FunnyCaption(msg) == <<"funny", msg.message_id>>

\* Where the handler stands after its synchronous intake: the checks of the
\* allow-list and the photo, the two dedup stores.
IntakeOutcome(msg) ==
    IF allowed_channel_ids # {} /\ msg.chat \notin allowed_channel_ids THEN "not_allowed"
    ELSE IF ~msg.photo THEN "no_photo"
    ELSE IF _mark_processed_channel_message(msg.chat, msg.message_id).ret THEN "duplicate_message"
    ELSE IF msg.media_group_id # None /\ _should_skip_media_group(msg.media_group_id).ret
         THEN "duplicate_media_group"
    ELSE "Accepted"

\* mutant: the (chat, message) key is marked before the allow-list is checked
handle_channel_photo_post_marking_first(msg, limit) ==
    /\ Len(handlers) < limit
    /\ LET outcome == IntakeOutcome(msg)
           grouped == /\ outcome \in {"duplicate_media_group", "Accepted"}
                      /\ msg.media_group_id # None
       IN  /\ _PROCESSED_CHANNEL_MESSAGES' = _mark_processed_channel_message(msg.chat, msg.message_id).store
           /\ _PROCESSED_MEDIA_GROUPS' =
                 IF grouped THEN _should_skip_media_group(msg.media_group_id).store
                 ELSE _PROCESSED_MEDIA_GROUPS
           /\ handlers' = Append(handlers,
                 [msg |-> msg, at |-> now, outcome |-> outcome,
                  pc |-> IF outcome # "Accepted" THEN "returned"
                         ELSE IF db_pool THEN "cleanup" ELSE "download",
                  caption |-> <<>>, ready |-> NoneInt, i |-> 0, wake |-> NoneInt,
                  log |-> <<>>])
    /\ UNCHANGED <<now, longWaits, _DISCUSSION_MAP, sent, forwards, db_pool, posts, daily_poll, polls, last_run, ai_text, daily_poll_options_count, invocations, telegram_app, poller_task, requests, shutdown, err>>

\* A channel photo update arrives: the handler runs up to its first suspension
\* point: the first query of the ledger step when a database pool is
\* configured, bot.get_file otherwise.
handle_channel_photo_post(msg, limit) ==
    /\ Len(handlers) < limit
    /\ LET outcome == IntakeOutcome(msg)
           marked == outcome \in {"duplicate_message", "duplicate_media_group", "Accepted"}
           grouped == /\ outcome \in {"duplicate_media_group", "Accepted"}
                      /\ msg.media_group_id # None
       IN  /\ _PROCESSED_CHANNEL_MESSAGES' =
                 IF marked THEN _mark_processed_channel_message(msg.chat, msg.message_id).store
                 ELSE _PROCESSED_CHANNEL_MESSAGES
           /\ _PROCESSED_MEDIA_GROUPS' =
                 IF grouped THEN _should_skip_media_group(msg.media_group_id).store
                 ELSE _PROCESSED_MEDIA_GROUPS
           /\ handlers' = Append(handlers,
                 [msg |-> msg, at |-> now, outcome |-> outcome,
                  pc |-> IF outcome # "Accepted" THEN "returned"
                         ELSE IF db_pool THEN "cleanup" ELSE "download",
                  caption |-> <<>>, ready |-> NoneInt, i |-> 0, wake |-> NoneInt,
                  log |-> <<>>])
    /\ UNCHANGED <<now, longWaits, _DISCUSSION_MAP, sent, forwards, db_pool, posts, daily_poll, polls, last_run, ai_text, daily_poll_options_count, invocations, telegram_app, poller_task, requests, shutdown, err>>

\* mutant: a download that raises unmarks the post's key and its album
HandlerDownload_unmarking(h) ==
    /\ handlers[h].pc = "download"
    /\ \E ok \in BOOLEAN :
          /\ handlers' = [handlers EXCEPT ![h].pc = IF ok THEN "CaptionRequested" ELSE "download_failed"]
          /\ _PROCESSED_CHANNEL_MESSAGES' =
                IF ok THEN _PROCESSED_CHANNEL_MESSAGES
                ELSE DictPop(_PROCESSED_CHANNEL_MESSAGES, <<handlers[h].msg.chat, handlers[h].msg.message_id>>)
          /\ _PROCESSED_MEDIA_GROUPS' =
                IF ok THEN _PROCESSED_MEDIA_GROUPS
                ELSE DictPop(_PROCESSED_MEDIA_GROUPS, handlers[h].msg.media_group_id)
    /\ UNCHANGED <<now, longWaits,
                   _DISCUSSION_MAP, sent, forwards, db_pool, posts, daily_poll, polls, last_run, ai_text, daily_poll_options_count, invocations, telegram_app, poller_task, requests, shutdown, err>>

\* bot.get_file / download_as_bytearray return, or raise (the exception leaves the handler)
HandlerDownload(h) ==
    /\ handlers[h].pc = "download"
    /\ \E ok \in BOOLEAN :
          handlers' = [handlers EXCEPT ![h].pc = IF ok THEN "CaptionRequested" ELSE "download_failed"]
    /\ UNCHANGED <<now, longWaits, _PROCESSED_CHANNEL_MESSAGES, _PROCESSED_MEDIA_GROUPS,
                   _DISCUSSION_MAP, sent, forwards, db_pool, posts, daily_poll, polls, last_run, ai_text, daily_poll_options_count, invocations, telegram_app, poller_task, requests, shutdown, err>>

\* mutant: the handler logs the TimewebAIError and goes on to create the task
HandlerCaption_continuing(h) ==
    /\ handlers[h].pc = "CaptionRequested"
    /\ \E ok \in BOOLEAN :
          handlers' = IF ok
                      THEN [handlers EXCEPT ![h].pc = "CaptionReady",
                                            ![h].caption = FunnyCaption(handlers[h].msg),
                                            ![h].ready = now]
                      ELSE [handlers EXCEPT ![h].pc = "CaptionReady",
                                            ![h].ready = now,
                                            ![h].log = Append(@, "caption_failed")]
    /\ UNCHANGED <<now, longWaits, _PROCESSED_CHANNEL_MESSAGES, _PROCESSED_MEDIA_GROUPS,
                   _DISCUSSION_MAP, sent, forwards, db_pool, posts, daily_poll, polls, last_run, ai_text, daily_poll_options_count, invocations, telegram_app, poller_task, requests, shutdown, err>>

\* generate_funny_caption returns a caption (the task is created) or raises TimewebAIError
HandlerCaption(h) ==
    /\ handlers[h].pc = "CaptionRequested"
    /\ \E ok \in BOOLEAN :
          handlers' = IF ok
                      THEN [handlers EXCEPT ![h].pc = "CaptionReady",
                                            ![h].caption = FunnyCaption(handlers[h].msg),
                                            ![h].ready = now]
                      ELSE [handlers EXCEPT ![h].pc = "CaptionFailed",
                                            ![h].log = Append(@, "caption_failed")]
    /\ UNCHANGED <<now, longWaits, _PROCESSED_CHANNEL_MESSAGES, _PROCESSED_MEDIA_GROUPS,
                   _DISCUSSION_MAP, sent, forwards, db_pool, posts, daily_poll, polls, last_run, ai_text, daily_poll_options_count, invocations, telegram_app, poller_task, requests, shutdown, err>>

\* mutant: a send_message that raised is followed by sleep(d) and the next pass
RetryIteration_retrying_send(h, i) ==
    LET hd == handlers[h]
        got == _discussion_map_get(hd.msg.chat, hd.msg.message_id)
        ref == got.ret
    IN  /\ _DISCUSSION_MAP' = got.map
        /\ IF ref # NoRef
           THEN /\ sent' = Append(sent, [chat_id |-> ref.discussion_chat_id,
                                         text |-> hd.caption,
                                         reply_to_message_id |-> ref.discussion_message_id,
                                         at |-> now, handler |-> h])
                /\ \E ok \in BOOLEAN :
                      handlers' = IF ok
                                  THEN [handlers EXCEPT ![h].pc = "CommentSent", ![h].i = i]
                                  ELSE [handlers EXCEPT ![h].pc = "sleep", ![h].i = i,
                                                        ![h].wake = now + delays[i],
                                                        ![h].log = Append(@, "send_failed")]
           ELSE /\ sent' = sent
                /\ handlers' = [handlers EXCEPT ![h].pc = "sleep", ![h].i = i,
                                                ![h].wake = now + delays[i]]

\* One pass of the task's for-loop, for d = delays[i]: the lookup, then either
\* the send_message call (it may raise; either way the task returns) or sleep(d).
RetryIteration(h, i) ==
    LET hd == handlers[h]
        got == _discussion_map_get(hd.msg.chat, hd.msg.message_id)
        ref == got.ret
    IN  /\ _DISCUSSION_MAP' = got.map
        /\ IF ref # NoRef
           THEN /\ sent' = Append(sent, [chat_id |-> ref.discussion_chat_id,
                                         text |-> hd.caption,
                                         reply_to_message_id |-> ref.discussion_message_id,
                                         at |-> now, handler |-> h])
                /\ \E ok \in BOOLEAN :
                      handlers' = [handlers EXCEPT
                                     ![h].pc = "CommentSent", ![h].i = i,
                                     ![h].log = IF ok THEN @ ELSE Append(@, "send_failed")]
           ELSE /\ sent' = sent
                /\ handlers' = [handlers EXCEPT ![h].pc = "sleep", ![h].i = i,
                                                ![h].wake = now + delays[i]]

\* the task created by asyncio.create_task starts
TaskStart(h) ==
    /\ handlers[h].pc = "CaptionReady"
    /\ RetryIteration(h, 1)
    /\ UNCHANGED <<now, longWaits, _PROCESSED_CHANNEL_MESSAGES, _PROCESSED_MEDIA_GROUPS, forwards, db_pool, posts, daily_poll, polls, last_run, ai_text, daily_poll_options_count, invocations, telegram_app, poller_task, requests, shutdown, err>>

\* asyncio.sleep(d) returns and the loop goes on with the next delay
TaskResume(h) ==
    /\ handlers[h].pc = "sleep"
    /\ now >= handlers[h].wake
    /\ handlers[h].i < Len(delays)
    /\ RetryIteration(h, handlers[h].i + 1)
    /\ UNCHANGED <<now, longWaits, _PROCESSED_CHANNEL_MESSAGES, _PROCESSED_MEDIA_GROUPS, forwards, db_pool, posts, daily_poll, polls, last_run, ai_text, daily_poll_options_count, invocations, telegram_app, poller_task, requests, shutdown, err>>

\* the last asyncio.sleep(d) returns: the loop is over, logger.error
TaskGiveUp(h) ==
    /\ handlers[h].pc = "sleep"
    /\ now >= handlers[h].wake
    /\ handlers[h].i = Len(delays)
    /\ handlers' = [handlers EXCEPT ![h].pc = "DiscussionUnresolved",
                                    ![h].log = Append(@, "unresolved")]
    /\ UNCHANGED <<now, longWaits, _PROCESSED_CHANNEL_MESSAGES, _PROCESSED_MEDIA_GROUPS,
                   _DISCUSSION_MAP, sent, forwards, db_pool, posts, daily_poll, polls, last_run, ai_text, daily_poll_options_count, invocations, telegram_app, poller_task, requests, shutdown, err>>

\* A message of the discussion group arrives.
handle_discussion_auto_forward(msg, limit) ==
    LET origin == _extract_origin_channel_and_msg_id(msg)
    IN  IF ~msg.is_automatic_forward \/ origin = NoOriginKey
        THEN UNCHANGED vars
        ELSE /\ Len(forwards) < limit
             /\ _DISCUSSION_MAP' = _discussion_map_put(origin[1], origin[2], msg.chat, msg.message_id)
             /\ forwards' = Append(forwards, [key |-> origin, chat |-> msg.chat,
                                              message_id |-> msg.message_id, at |-> now])
             /\ UNCHANGED <<now, longWaits, _PROCESSED_CHANNEL_MESSAGES,
                            _PROCESSED_MEDIA_GROUPS, handlers, sent, db_pool, posts, daily_poll, polls, last_run, ai_text, daily_poll_options_count, invocations, telegram_app, poller_task, requests, shutdown, err>>

---------------------------------------------------------------------------
(* Daily poll: the tables of db.py *)

HOUR == 60 * 60 * TicksPerSecond
DAY == 24 * HOUR

\* the settings of the daily poll (environment variables; times are local
\* times of settings.daily_poll_timezone, taken to be UTC)
daily_poll_enabled == TRUE
daily_poll_channel_ids == {"C"}
daily_poll_start_hour == 9
daily_poll_end_hour == 21
daily_poll_min_posts == 2
daily_poll_questions == {"who wins?"}

\* the calendar date of an instant, as a day number
DateOf(t) == t \div DAY

\* mutant: the window of a date stays open for a year
end_dt_open(poll_date) == (poll_date + 365) * DAY + daily_poll_end_hour * HOUR

\* datetime.combine(poll_date, start_t) and datetime.combine(poll_date, end_t)
start_dt(poll_date) == poll_date * DAY + daily_poll_start_hour * HOUR
end_dt(poll_date) == poll_date * DAY + daily_poll_end_hour * HOUR

\* a row of posts
PostRow(channel_id, message_id, post_date, photo_file_id) ==
    [channel_id |-> channel_id, message_id |-> message_id, post_date |-> post_date,
     photo_file_id |-> photo_file_id, created_at |-> now]

\* a row of daily_poll as the INSERT of ensure_daily_poll leaves it
PollRow(scheduled_at) ==
    [scheduled_at |-> scheduled_at, posted_at |-> NoneInt, skipped_at |-> NoneInt,
     poll_message_id |-> NoneInt, chosen_post_message_id |-> NoneInt,
     question |-> None, options |-> <<>>, last_error |-> None, last_error_at |-> NoneInt]

\* mutant: the DELETE runs whether or not a post of today exists
maybe_cleanup_old_posts_every_post(today, days) ==
    {p \in posts : ~(p.created_at < now - days * DAY)}

\* posts after maybe_cleanup_old_posts(pool, today, days)
maybe_cleanup_old_posts(today, days) ==
    IF \E p \in posts : p.post_date = today THEN posts
    ELSE {p \in posts : ~(p.created_at < now - days * DAY)}

\* posts after record_post: INSERT ... ON CONFLICT (channel_id, message_id) DO NOTHING
record_post(table, channel_id, message_id, post_date, photo_file_id) ==
    IF \E p \in table : p.channel_id = channel_id /\ p.message_id = message_id THEN table
    ELSE table \cup {PostRow(channel_id, message_id, post_date, photo_file_id)}

\* mutant: the insert replaces the row of the key
ensure_daily_poll_replacing(table, channel_id, poll_date, scheduled_at) ==
    DictPut(table, <<channel_id, poll_date>>, PollRow(scheduled_at))

\* daily_poll after ensure_daily_poll: INSERT ... ON CONFLICT (channel_id, poll_date) DO NOTHING
ensure_daily_poll(table, channel_id, poll_date, scheduled_at) ==
    IF <<channel_id, poll_date>> \in DOMAIN table THEN table
    ELSE DictPut(table, <<channel_id, poll_date>>, PollRow(scheduled_at))

\* mutant: rows that are posted or skipped are selected too
get_due_polls_any_state(table, now_utc) ==
    {k \in DOMAIN table : table[k].scheduled_at <= now_utc}

\* mutant: rows that are skipped are selected too
get_due_polls_unposted(table, now_utc) ==
    {k \in DOMAIN table : table[k].posted_at = NoneInt /\ table[k].scheduled_at <= now_utc}

\* mutant: pending rows are selected before their scheduled_at
get_due_polls_any_time(table, now_utc) ==
    {k \in DOMAIN table : table[k].posted_at = NoneInt /\ table[k].skipped_at = NoneInt}

\* mutant: pending rows are selected from the start of the day of their scheduled_at
get_due_polls_by_date(table, now_utc) ==
    {k \in DOMAIN table : /\ table[k].posted_at = NoneInt
                          /\ table[k].skipped_at = NoneInt
                          /\ DateOf(table[k].scheduled_at) <= DateOf(now_utc)}

\* the keys of the rows get_due_polls selects
get_due_polls(table, now_utc) ==
    {k \in DOMAIN table : /\ table[k].posted_at = NoneInt
                          /\ table[k].skipped_at = NoneInt
                          /\ table[k].scheduled_at <= now_utc}

\* mutant: the posts of the channel are counted whatever their date
count_posts_for_channel(channel_id, poll_date) ==
    Cardinality({p \in posts : p.channel_id = channel_id})

count_posts_for_date(channel_id, poll_date) ==
    Cardinality({p \in posts : p.channel_id = channel_id /\ p.post_date = poll_date})

\* mutant: the post is picked among the posts of the channel whatever their date
pick_random_post_any_date(channel_id, poll_date) ==
    {p \in posts : p.channel_id = channel_id}

\* mutant: no post is picked for a date with fewer posts than the minimum
pick_random_post_min_posts(channel_id, poll_date) ==
    IF count_posts_for_date(channel_id, poll_date) < daily_poll_min_posts THEN {}
    ELSE {p \in posts : p.channel_id = channel_id /\ p.post_date = poll_date}

\* the rows pick_random_post may return (ORDER BY RANDOM() LIMIT 1); none when empty
pick_random_post(channel_id, poll_date) ==
    {p \in posts : p.channel_id = channel_id /\ p.post_date = poll_date}

\* mutant: the UPDATE of mark_poll_posted matches every row of the channel
mark_poll_posted_channel_wide(table, channel_id, poll_date, poll_message_id, chosen_post_message_id, question, options) ==
    [k \in DOMAIN table |->
        IF k[1] # channel_id THEN table[k]
        ELSE [table[k] EXCEPT !.posted_at = now,
                              !.poll_message_id = poll_message_id,
                              !.chosen_post_message_id = chosen_post_message_id,
                              !.question = question,
                              !.options = options]]

\* daily_poll after mark_poll_posted
mark_poll_posted(table, channel_id, poll_date, poll_message_id, chosen_post_message_id, question, options) ==
    IF <<channel_id, poll_date>> \notin DOMAIN table THEN table
    ELSE [table EXCEPT ![<<channel_id, poll_date>>] =
             [@ EXCEPT !.posted_at = now,
                       !.poll_message_id = poll_message_id,
                       !.chosen_post_message_id = chosen_post_message_id,
                       !.question = question,
                       !.options = options]]

\* mutant: the UPDATE of mark_poll_skipped matches every row of the channel
mark_poll_skipped_channel_wide(table, channel_id, poll_date) ==
    [k \in DOMAIN table |->
        IF k[1] = channel_id THEN [table[k] EXCEPT !.skipped_at = now] ELSE table[k]]

\* mutant: the UPDATE of mark_poll_skipped sets posted_at
mark_poll_skipped_as_posted(table, channel_id, poll_date) ==
    IF <<channel_id, poll_date>> \notin DOMAIN table THEN table
    ELSE [table EXCEPT ![<<channel_id, poll_date>>] = [@ EXCEPT !.posted_at = now]]

\* mutant: the UPDATE of mark_poll_skipped matches no row
mark_poll_skipped_no_row(table, channel_id, poll_date) == table

\* daily_poll after mark_poll_skipped
mark_poll_skipped(table, channel_id, poll_date) ==
    IF <<channel_id, poll_date>> \notin DOMAIN table THEN table
    ELSE [table EXCEPT ![<<channel_id, poll_date>>] = [@ EXCEPT !.skipped_at = now]]

\* daily_poll after mark_poll_error: the error annotation of the row
mark_poll_error(table, channel_id, poll_date, error) ==
    IF <<channel_id, poll_date>> \notin DOMAIN table THEN table
    ELSE [table EXCEPT ![<<channel_id, poll_date>>] =
             [@ EXCEPT !.last_error = error, !.last_error_at = now]]

---------------------------------------------------------------------------
(* Daily poll: the ledger step of the handler and the scheduler's tick *)

\* a tick stands for the resolution of datetime; floats are finer by this factor
SubTicks == 4

\* mutant: the offset is drawn from a whole day whatever the window
uniform_over_a_day(a, b) == {a * SubTicks, (a + DAY) * SubTicks - 1}

\* random.uniform(a, b) = a + (b - a) * random() with random() in [0, 1): the
\* least and the greatest float it returns
uniform(a, b) == IF b <= a THEN {a * SubTicks} ELSE {a * SubTicks, b * SubTicks - 1}

\* timedelta(seconds=x) rounds x to the resolution of datetime, half to even
timedelta(x) ==
    LET q == x \div SubTicks
        r == x % SubTicks
    IN  IF 2 * r < SubTicks THEN q
        ELSE IF 2 * r > SubTicks THEN q + 1
        ELSE IF q % 2 = 0 THEN q ELSE q + 1

\* timedelta(seconds=random.uniform(0, max(delta, 0)))
ScheduleOffsets(delta) == {timedelta(x) : x \in uniform(0, IF delta > 0 THEN delta ELSE 0)}

\* the handler's post_date: msg.date in the poll's timezone
PostDate(h) == DateOf(handlers[h].at)

\* mutant: the exception of the ledger step leaves the handler
LedgerFailed_aborting(h) ==
    [handlers EXCEPT ![h].pc = "returned", ![h].log = Append(@, "ledger_failed")]

\* the handler's try block gives up: logger.exception, then on to the download
LedgerFailed(h) ==
    [handlers EXCEPT ![h].pc = "download", ![h].log = Append(@, "ledger_failed")]

\* _record_post_for_poll_if_needed, first await: maybe_cleanup_old_posts
HandlerCleanup(h) ==
    /\ handlers[h].pc = "cleanup"
    /\ \E ok \in BOOLEAN :
          IF ok
          THEN /\ posts' = maybe_cleanup_old_posts(PostDate(h), 30)
               /\ handlers' = [handlers EXCEPT ![h].pc = "record_post"]
          ELSE /\ posts' = posts
               /\ handlers' = LedgerFailed(h)
    /\ UNCHANGED <<now, longWaits, _PROCESSED_CHANNEL_MESSAGES, _PROCESSED_MEDIA_GROUPS,
                   _DISCUSSION_MAP, sent, forwards, db_pool, daily_poll, polls, last_run, ai_text, daily_poll_options_count, invocations, telegram_app, poller_task, requests, shutdown, err>>

\* second await: record_post; then the checks of the poll settings
HandlerRecordPost(h) ==
    /\ handlers[h].pc = "record_post"
    /\ \E ok \in BOOLEAN :
          IF ok
          THEN /\ posts' = record_post(posts, handlers[h].msg.chat, handlers[h].msg.message_id,
                                       PostDate(h), <<"file", handlers[h].msg.message_id>>)
               /\ handlers' = [handlers EXCEPT ![h].pc =
                                  IF /\ daily_poll_enabled
                                     /\ handlers[h].msg.chat \in daily_poll_channel_ids
                                  THEN "schedule" ELSE "download"]
          ELSE /\ posts' = posts
               /\ handlers' = LedgerFailed(h)
    /\ UNCHANGED <<now, longWaits, _PROCESSED_CHANNEL_MESSAGES, _PROCESSED_MEDIA_GROUPS,
                   _DISCUSSION_MAP, sent, forwards, db_pool, daily_poll, polls, last_run, ai_text, daily_poll_options_count, invocations, telegram_app, poller_task, requests, shutdown, err>>

\* third await: _ensure_poll_scheduled draws the instant and calls ensure_daily_poll
_ensure_poll_scheduled(h) ==
    /\ handlers[h].pc = "schedule"
    /\ LET poll_date == PostDate(h)
           first == start_dt(poll_date)
           last == IF end_dt(poll_date) <= first THEN first ELSE end_dt(poll_date)
           delta == last - first
       IN  \E ok \in BOOLEAN, offset \in ScheduleOffsets(delta) :
              IF ok
              THEN /\ daily_poll' = ensure_daily_poll(daily_poll, handlers[h].msg.chat,
                                                      poll_date, first + offset)
                   /\ handlers' = [handlers EXCEPT ![h].pc = "download"]
              ELSE /\ daily_poll' = daily_poll
                   /\ handlers' = LedgerFailed(h)
    /\ UNCHANGED <<now, longWaits, _PROCESSED_CHANNEL_MESSAGES, _PROCESSED_MEDIA_GROUPS,
                   _DISCUSSION_MAP, sent, forwards, db_pool, posts, polls, last_run, ai_text, daily_poll_options_count, invocations, telegram_app, poller_task, requests, shutdown, err>>

\* Python strings are sequences of characters
Whitespace == {" ", "\n"}

\* str.strip(chars)
RECURSIVE lstrip(_, _)
lstrip(s, chars) == IF s # <<>> /\ Head(s) \in chars THEN lstrip(Tail(s), chars) ELSE s

RECURSIVE rstrip(_, _)
rstrip(s, chars) ==
    IF s # <<>> /\ s[Len(s)] \in chars THEN rstrip(SubSeq(s, 1, Len(s) - 1), chars) ELSE s

strip(s, chars) == rstrip(lstrip(s, chars), chars)

\* str.split(sep) for a separator of one character
RECURSIVE split(_, _)
split(s, sep) ==
    IF \E i \in 1..Len(s) : s[i] = sep
    THEN LET i == CHOOSE i \in 1..Len(s) : s[i] = sep /\ \A j \in 1..(i - 1) : s[j] # sep
         IN  <<SubSeq(s, 1, i - 1)>> \o split(SubSeq(s, i + 1, Len(s)), sep)
    ELSE <<s>>

\* str.splitlines(): no empty last line after a final line break
splitlines(s) ==
    LET parts == split(s, "\n")
    IN  IF parts[Len(parts)] = <<>> THEN SubSeq(parts, 1, Len(parts) - 1) ELSE parts

\* x in seq
Contains(seq, x) == \E i \in 1..Len(seq) : seq[i] = x

\* mutant: the options count is clamped to 2..5
clamp_options_count_to_five(options_count) ==
    IF options_count < 2 THEN 2 ELSE IF options_count > 5 THEN 5 ELSE options_count

\* max(2, min(4, int(options_count)))
clamp_options_count(options_count) ==
    IF options_count < 2 THEN 2 ELSE IF options_count > 4 THEN 4 ELSE options_count

\* the loop over the lines of the text: empty lines and duplicates are left
\* out, the loop breaks at options_count options
RECURSIVE options_from_lines(_, _, _)
options_from_lines(lines, options, options_count) ==
    IF lines = <<>> THEN options
    ELSE LET ln == strip(Head(lines), Whitespace)
             more == IF Contains(options, ln) THEN options ELSE Append(options, ln)
         IN  IF ln = <<>> THEN options_from_lines(Tail(lines), options, options_count)
             ELSE IF Len(more) >= options_count THEN more
             ELSE options_from_lines(Tail(lines), more, options_count)

\* the loop over the comma-separated parts of the text
RECURSIVE options_from_parts(_, _, _)
options_from_parts(parts, options, options_count) ==
    IF parts = <<>> THEN options
    ELSE LET part == strip(Head(parts), Whitespace)
             more == IF part # <<>> /\ ~Contains(options, part) THEN Append(options, part)
                     ELSE options
         IN  IF Len(more) >= options_count THEN more
             ELSE options_from_parts(Tail(parts), more, options_count)

\* what generate_poll_options raises
TimewebAIError == [raised |-> TRUE, options |-> <<>>]

\* generate_poll_options, from the text extracted from the AI's answer (the
\* same text at each attempt) to the list it returns or the error it raises
generate_poll_options(answer, question, count) ==
    LET options_count == clamp_options_count(count)
        text == strip(answer, Whitespace)
        stripped == [i \in 1..Len(splitlines(text)) |-> strip(splitlines(text)[i], {" ", "-"})]
        by_line == options_from_lines(stripped, <<>>, options_count)
        options == IF Len(by_line) < 2 /\ Contains(text, ",")
                   THEN options_from_parts(split(text, ","), by_line, options_count)
                   ELSE by_line
    IN  IF text = <<>> THEN TimewebAIError
        ELSE IF Len(options) < 2 THEN TimewebAIError
        ELSE [raised |-> FALSE,
              options |-> SubSeq(options, 1, IF Len(options) < options_count THEN Len(options)
                                             ELSE options_count)]

\* the orders in which a query may return a set of rows
Orderings(S) ==
    {f \in [1..Cardinality(S) -> S] : \A a, b \in 1..Cardinality(S) : f[a] = f[b] => a = b}

\* the call of bot.send_poll that succeeded, for the row <<channel_id, poll_date>>
SentPoll(published, channel_id, poll_date, question, options, post) ==
    [chat_id |-> channel_id, poll_date |-> poll_date, question |-> question,
     options |-> options, reply_to_message_id |-> post.message_id,
     message_id |-> 1000 + Len(published) + 1, at |-> now]

\* how an invocation of run_poll_once ends: the tables and its return value
\* ("exception" when it raises instead of returning)
Outcome(table, published, reason) ==
    [daily_poll |-> table, polls |-> published, reason |-> reason]

\* The for-loop of run_poll_once over the rows that are left: every way in
\* which the invocation can end.  Any await on the database may raise; the
\* invocation then ends with what was written so far.
RECURSIVE poll_rows(_, _, _, _)
poll_rows(due, table, published, force) ==
    IF due = <<>> THEN {Outcome(table, published, "no_poll_posted")}
    ELSE
    LET channel_id == Head(due)[1]
        poll_date == Head(due)[2]
        raised == {Outcome(table, published, "exception")}
        continue == poll_rows(Tail(due), table, published, force)
        attempt(post, question) ==
            LET got == generate_poll_options(ai_text, question, daily_poll_options_count)
                options == got.options
                poll == SentPoll(published, channel_id, poll_date, question, options, post)
                annotated == mark_poll_error(table, channel_id, poll_date, "TimewebAIError")
            IN  { Outcome(table, published, "download_photo_failed"),
                  \* generate_poll_options raises: mark_poll_error, mark_poll_skipped
                  Outcome(annotated, published, "exception"),
                  Outcome(mark_poll_skipped(annotated, channel_id, poll_date), published,
                          "ai_options_failed") }
                \cup
                IF got.raised THEN {}
                ELSE
                { Outcome(table, published, "send_poll_failed"),
                  \* the poll is sent: mark_poll_posted
                  Outcome(table, Append(published, poll), "exception"),
                  Outcome(mark_poll_posted(table, channel_id, poll_date, poll.message_id,
                                           post.message_id, question, options),
                          Append(published, poll), "ok") }
    IN  IF channel_id \notin daily_poll_channel_ids THEN continue
        ELSE IF now > end_dt(poll_date) /\ ~force
             THEN raised \cup poll_rows(Tail(due),
                                        mark_poll_skipped(table, channel_id, poll_date),
                                        published, force)
        ELSE IF count_posts_for_date(channel_id, poll_date) < daily_poll_min_posts /\ ~force
             THEN raised \cup continue
        ELSE IF pick_random_post(channel_id, poll_date) = {} THEN raised \cup continue
        ELSE raised \cup
             UNION { IF post.photo_file_id = None THEN continue
                     ELSE UNION {attempt(post, question) : question \in daily_poll_questions}
                     : post \in pick_random_post(channel_id, poll_date) }

\* One invocation of run_poll_once, from its guards to its return.
run_poll_once(force) ==
    /\ db_pool
    /\ daily_poll_enabled
    /\ daily_poll_channel_ids # {}
    /\ LET rows == get_due_polls(daily_poll, now)
       IN  \E due \in Orderings(rows) :
           \E end \in IF rows = {} THEN {Outcome(daily_poll, polls, "no_due_polls")}
                      ELSE poll_rows(due, daily_poll, polls, force) :
               /\ Len(end.polls) <= MaxPolls
               /\ daily_poll' = end.daily_poll
               /\ polls' = end.polls
               /\ last_run' = end.reason
    /\ UNCHANGED <<now, longWaits, _PROCESSED_CHANNEL_MESSAGES, _PROCESSED_MEDIA_GROUPS,
                   _DISCUSSION_MAP, handlers, sent, forwards, db_pool, posts, ai_text, daily_poll_options_count, invocations, telegram_app, poller_task, requests, shutdown, err>>

---------------------------------------------------------------------------
(* The clock *)

\* a task that is ready to run, or asleep until before now + d, runs first;
\* so does a handler in the middle of its ledger step
MayPass(d) ==
    \A h \in 1..Len(handlers) :
        /\ handlers[h].pc \notin {"CaptionReady", "cleanup", "record_post", "schedule"}
        /\ handlers[h].pc = "sleep" => now + d <= handlers[h].wake

\* the next instant at which a sleeping task wakes
NextWake ==
    LET W == {handlers[h].wake : h \in {x \in 1..Len(handlers) : handlers[x].pc = "sleep"}}
    IN  IF W = {} THEN NoneInt ELSE CHOOSE w \in W : \A v \in W : w <= v

\* idle periods around the TTL of the dedup stores: an hour, the TTL, the TTL and half a second
LongSteps == {_DISCUSSION_TTL_S, _CHANNEL_MSG_TTL_S, _CHANNEL_MSG_TTL_S + 1}

\* idle periods around the TTL of the mapping table
MapSteps == {_DISCUSSION_TTL_S, _DISCUSSION_TTL_S + 1}

\* a long idle period passes
LongWait(d, limit) ==
    /\ longWaits < limit
    /\ MayPass(d)
    /\ now' = now + d
    /\ longWaits' = longWaits + 1
    /\ UNCHANGED <<_PROCESSED_CHANNEL_MESSAGES, _PROCESSED_MEDIA_GROUPS,
                   _DISCUSSION_MAP, handlers, sent, forwards, db_pool, posts, daily_poll, polls, last_run, ai_text, daily_poll_options_count, invocations, telegram_app, poller_task, requests, shutdown, err>>

\* time passes until the next sleeping task wakes
WaitForWake ==
    /\ NextWake # NoneInt
    /\ NextWake > now
    /\ MayPass(NextWake - now)
    /\ now' = NextWake
    /\ UNCHANGED <<longWaits, _PROCESSED_CHANNEL_MESSAGES, _PROCESSED_MEDIA_GROUPS,
                   _DISCUSSION_MAP, handlers, sent, forwards, db_pool, posts, daily_poll, polls, last_run, ai_text, daily_poll_options_count, invocations, telegram_app, poller_task, requests, shutdown, err>>

\* time passes until the last half-second before the next sleeping task wakes
WaitUntilBeforeWake ==
    /\ NextWake # NoneInt
    /\ NextWake - 1 > now
    /\ MayPass(NextWake - 1 - now)
    /\ now' = NextWake - 1
    /\ UNCHANGED <<longWaits, _PROCESSED_CHANNEL_MESSAGES, _PROCESSED_MEDIA_GROUPS,
                   _DISCUSSION_MAP, handlers, sent, forwards, db_pool, posts, daily_poll, polls, last_run, ai_text, daily_poll_options_count, invocations, telegram_app, poller_task, requests, shutdown, err>>

---------------------------------------------------------------------------
(* Specifications *)

Init ==
    /\ now = 0
    /\ longWaits = 0
    /\ _PROCESSED_CHANNEL_MESSAGES = EmptyDict
    /\ _PROCESSED_MEDIA_GROUPS = EmptyDict
    /\ _DISCUSSION_MAP = EmptyDict
    /\ handlers = <<>>
    /\ sent = <<>>
    /\ forwards = <<>>
    /\ db_pool = FALSE
    /\ posts = {}
    /\ daily_poll = EmptyDict
    /\ polls = <<>>
    /\ last_run = None
    /\ ai_text = UsualReply
    /\ daily_poll_options_count = 4
    /\ invocations = NoInvocations
    /\ ServiceUp

\* the steps of the handlers and tasks in flight
Pipeline ==
    \/ \E h \in 1..Len(handlers) : HandlerDownload(h)
    \/ \E h \in 1..Len(handlers) : HandlerCaption(h)
    \/ \E h \in 1..Len(handlers) : TaskStart(h)
    \/ \E h \in 1..Len(handlers) : TaskResume(h)
    \/ \E h \in 1..Len(handlers) : TaskGiveUp(h)

\* The caption pipeline on the clock of the retry schedule: the discussion
\* rendezvous of a post and its auto-forward.
Next ==
    \/ \E msg \in ForwardedPosts : handle_channel_photo_post(msg, MaxPosts)
    \/ \E msg \in GroupMessages : handle_discussion_auto_forward(msg, MaxForwards)
    \/ Pipeline
    \/ WaitForWake
    \/ WaitUntilBeforeWake

Spec == Init /\ [][Next]_vars

\* The intake of the channel-photo handler over hours: redeliveries and albums
\* against the TTLs of the two dedup stores.
NextDedup ==
    \/ \E msg \in ChannelPosts : handle_channel_photo_post(msg, MaxUpdates)
    \/ \E d \in LongSteps : LongWait(d, MaxIdle)

SpecDedup == Init /\ [][NextDedup]_vars

\* The discussion mapping table over hours: puts, lookups and expiry.
NextMap ==
    \/ \E msg \in FirstPost : handle_channel_photo_post(msg, MaxLookupPosts)
    \/ \E msg \in GroupMessages : handle_discussion_auto_forward(msg, MaxPuts)
    \/ Pipeline
    \/ \E d \in MapSteps : LongWait(d, MaxMapWaits)
    \/ WaitForWake

SpecMap == Init /\ [][NextMap]_vars

\* idle periods of the scheduler's day: twelve hours
PollSteps == {12 * HOUR}

\* the process starts at noon of day 0 with a database pool, on empty tables
InitPoll ==
    /\ now = 12 * HOUR
    /\ longWaits = 0
    /\ _PROCESSED_CHANNEL_MESSAGES = EmptyDict
    /\ _PROCESSED_MEDIA_GROUPS = EmptyDict
    /\ _DISCUSSION_MAP = EmptyDict
    /\ handlers = <<>>
    /\ sent = <<>>
    /\ forwards = <<>>
    /\ db_pool = TRUE
    /\ posts = {}
    /\ daily_poll = EmptyDict
    /\ polls = <<>>
    /\ last_run = None
    /\ ai_text = UsualReply
    /\ daily_poll_options_count = 4
    /\ invocations = NoInvocations
    /\ ServiceUp

\* The daily poll over days: posts recorded by the handler, rows scheduled,
\* and invocations of run_poll_once one at a time.
NextPoll ==
    \/ \E msg \in PollPosts : handle_channel_photo_post(msg, MaxPollPosts)
    \/ \E h \in 1..Len(handlers) : HandlerCleanup(h)
    \/ \E h \in 1..Len(handlers) : HandlerRecordPost(h)
    \/ \E h \in 1..Len(handlers) : _ensure_poll_scheduled(h)
    \/ \E force \in BOOLEAN : run_poll_once(force)
    \/ \E d \in PollSteps : LongWait(d, MaxPollWaits)

SpecPoll == InitPoll /\ [][NextPoll]_vars

\* idle periods of a day
DaySteps == {DAY}

\* the updates delivered so far
Delivered == {handlers[h].msg : h \in 1..Len(handlers)}

\* The background poller alone over two days: poller_loop invokes
\* run_poll_once without force, one invocation at a time; Telegram delivers
\* each update once.
NextBacklog ==
    \/ \E msg \in BacklogPosts \ Delivered : handle_channel_photo_post(msg, MaxBacklogPosts)
    \/ \E h \in 1..Len(handlers) : HandlerCleanup(h)
    \/ \E h \in 1..Len(handlers) : HandlerRecordPost(h)
    \/ \E h \in 1..Len(handlers) : _ensure_poll_scheduled(h)
    \/ run_poll_once(FALSE)
    \/ \E d \in DaySteps : LongWait(d, MaxBacklogWaits)

SpecBacklog == InitPoll /\ [][NextBacklog]_vars

---------------------------------------------------------------------------
(* Vocabulary of the properties *)

Handlers == 1..Len(handlers)
KeyOf(h) == <<handlers[h].msg.chat, handlers[h].msg.message_id>>
GroupOf(h) == handlers[h].msg.media_group_id

\* the handler got as far as calling _mark_processed_channel_message
MarkCalled(h) == handlers[h].outcome \in {"duplicate_message", "duplicate_media_group", "Accepted"}
\* ... and what the call returned
MarkReturned(h) == handlers[h].outcome = "duplicate_message"

\* h is the first call of _mark_processed_channel_message for its key, j the second
FirstTwoCalls(h, j) ==
    /\ h < j
    /\ KeyOf(h) = KeyOf(j)
    /\ MarkCalled(h) /\ MarkCalled(j)
    /\ \A k \in 1..(j - 1) : (k # h /\ KeyOf(k) = KeyOf(h)) => ~MarkCalled(k)

\* the new invocation a step of handle_channel_photo_post records
NewHandler == handlers'[Len(handlers')]

\* the send_message calls of the task of handler h
SendsOf(h) == {s \in 1..Len(sent) : sent[s].handler = h}

\* the puts seen so far for the key of handler h
PutsFor(h) == {f \in 1..Len(forwards) : forwards[f].key = KeyOf(h)}

RECURSIVE SumTo(_, _)
SumTo(seq, n) == IF n = 0 THEN 0 ELSE seq[n] + SumTo(seq, n - 1)
\* the total retry window: 27.5 s
RetryWindow == SumTo(delays, Len(delays))

---------------------------------------------------------------------------
(* Deduplication store: C1 - C4, under SpecDedup *)

\* C1: for a channel-message key not yet marked, two calls of
\* _mark_processed_channel_message within the 6 h TTL return False, then True.
C1_TwiceWithinTtl ==
    \A h, j \in Handlers :
        (FirstTwoCalls(h, j) /\ handlers[j].at - handlers[h].at <= _CHANNEL_MSG_TTL_S)
            => (~MarkReturned(h) /\ MarkReturned(j))

\* the second call comes exactly when the TTL ends
C1_Witness ==
    \E h, j \in Handlers :
        /\ FirstTwoCalls(h, j)
        /\ handlers[j].at - handlers[h].at = _CHANNEL_MSG_TTL_S
        /\ ~MarkReturned(h) /\ MarkReturned(j)

\* C2: in both dedup stores, a mark-and-check of a key later than TTL after the
\* stored mark reports "not a duplicate" and re-marks the key with the new time.
C2_ExpiredIsFresh ==
    [][ \A msg \in ChannelPosts :
           handle_channel_photo_post(msg, MaxUpdates) =>
             LET key == <<msg.chat, msg.message_id>>
                 g == msg.media_group_id
             IN  /\ ( /\ msg.chat \in allowed_channel_ids /\ msg.photo
                      /\ key \in DOMAIN _PROCESSED_CHANNEL_MESSAGES
                      /\ now > _PROCESSED_CHANNEL_MESSAGES[key] + _CHANNEL_MSG_TTL_S )
                    => ( /\ NewHandler.outcome # "duplicate_message"
                         /\ _PROCESSED_CHANNEL_MESSAGES'[key] = now )
                 /\ ( /\ NewHandler.outcome \in {"duplicate_media_group", "Accepted"}
                      /\ g \in DOMAIN _PROCESSED_MEDIA_GROUPS
                      /\ now > _PROCESSED_MEDIA_GROUPS[g] + _MEDIA_GROUP_TTL_S )
                    => ( /\ NewHandler.outcome = "Accepted"
                         /\ _PROCESSED_MEDIA_GROUPS'[g] = now )
      ]_vars

\* a post of the album is accepted a second time, half a second after both TTLs ended
C2_Witness ==
    \E h, j \in Handlers :
        /\ h < j /\ KeyOf(h) = KeyOf(j) /\ GroupOf(h) # None
        /\ handlers[h].outcome = "Accepted" /\ handlers[j].outcome = "Accepted"
        /\ handlers[j].at = handlers[h].at + _CHANNEL_MSG_TTL_S + 1
        /\ _PROCESSED_CHANNEL_MESSAGES[KeyOf(j)] = handlers[j].at
        /\ _PROCESSED_MEDIA_GROUPS[GroupOf(j)] = handlers[j].at

\* C3: while a key is within TTL of its stored mark, every mark-and-check of it
\* returns True, and no step (a duplicate sighting, an operation on another key,
\* time passing) changes the stored timestamp.
C3_WindowNotRefreshed ==
    [][ /\ \A msg \in ChannelPosts :
              handle_channel_photo_post(msg, MaxUpdates) =>
                LET key == <<msg.chat, msg.message_id>>
                    g == msg.media_group_id
                IN  /\ ( /\ msg.chat \in allowed_channel_ids /\ msg.photo
                         /\ key \in DOMAIN _PROCESSED_CHANNEL_MESSAGES
                         /\ now <= _PROCESSED_CHANNEL_MESSAGES[key] + _CHANNEL_MSG_TTL_S )
                       => ( /\ NewHandler.outcome = "duplicate_message"
                            /\ _PROCESSED_CHANNEL_MESSAGES' = _PROCESSED_CHANNEL_MESSAGES )
                    /\ ( /\ NewHandler.outcome \in {"duplicate_media_group", "Accepted"}
                         /\ g \in DOMAIN _PROCESSED_MEDIA_GROUPS
                         /\ now <= _PROCESSED_MEDIA_GROUPS[g] + _MEDIA_GROUP_TTL_S )
                       => ( /\ NewHandler.outcome = "duplicate_media_group"
                            /\ _PROCESSED_MEDIA_GROUPS' = _PROCESSED_MEDIA_GROUPS )
        /\ \A key \in DOMAIN _PROCESSED_CHANNEL_MESSAGES :
              now' <= _PROCESSED_CHANNEL_MESSAGES[key] + _CHANNEL_MSG_TTL_S
                => ( /\ key \in DOMAIN _PROCESSED_CHANNEL_MESSAGES'
                     /\ _PROCESSED_CHANNEL_MESSAGES'[key] = _PROCESSED_CHANNEL_MESSAGES[key] )
        /\ \A g \in DOMAIN _PROCESSED_MEDIA_GROUPS :
              now' <= _PROCESSED_MEDIA_GROUPS[g] + _MEDIA_GROUP_TTL_S
                => ( /\ g \in DOMAIN _PROCESSED_MEDIA_GROUPS'
                     /\ _PROCESSED_MEDIA_GROUPS'[g] = _PROCESSED_MEDIA_GROUPS[g] )
      ]_vars

\* a key marked at T is seen again twice, the last time at T + TTL; both stores
\* still hold T
C3_Witness ==
    \E h, j, k \in Handlers :
        /\ h < j /\ j < k
        /\ KeyOf(j) = KeyOf(h) /\ KeyOf(k) = KeyOf(h)
        /\ handlers[h].outcome = "Accepted"
        /\ MarkReturned(j) /\ MarkReturned(k)
        /\ handlers[j].at > handlers[h].at
        /\ handlers[k].at = handlers[h].at + _CHANNEL_MSG_TTL_S
        /\ _PROCESSED_CHANNEL_MESSAGES[KeyOf(h)] = handlers[h].at
        /\ _PROCESSED_MEDIA_GROUPS[GroupOf(h)] = handlers[h].at

\* C4: of the channel photo events of one media group that arrive within the
\* media-group TTL of the first, redeliveries included, exactly the first one
\* passes deduplication.
C4_OnePerMediaGroup ==
    \A f \in Handlers :
        ( /\ GroupOf(f) # None
          /\ MarkCalled(f)
          /\ \A e \in 1..(f - 1) : GroupOf(e) # GroupOf(f) )
        => ( /\ handlers[f].outcome = "Accepted"
             /\ \A j \in Handlers :
                   ( /\ j > f /\ GroupOf(j) = GroupOf(f)
                     /\ handlers[j].at <= handlers[f].at + _MEDIA_GROUP_TTL_S )
                   => handlers[j].outcome \in {"duplicate_message", "duplicate_media_group"} )

\* the first photo of the album is accepted, the second is skipped as part of
\* the album, a redelivery of the second is skipped as a duplicate message
C4_Witness ==
    \E f, j, k \in Handlers :
        /\ f < j /\ j < k
        /\ GroupOf(f) # None /\ GroupOf(j) = GroupOf(f) /\ GroupOf(k) = GroupOf(f)
        /\ KeyOf(j) # KeyOf(f) /\ KeyOf(k) = KeyOf(j)
        /\ handlers[f].outcome = "Accepted"
        /\ handlers[j].outcome = "duplicate_media_group"
        /\ handlers[k].outcome = "duplicate_message"
        /\ handlers[k].at = handlers[f].at + _MEDIA_GROUP_TTL_S

---------------------------------------------------------------------------
(* Discussion rendezvous: C5 - C7, under Spec *)

TaskOver(h) == handlers[h].pc \in {"CommentSent", "DiscussionUnresolved"}

\* C5: if the mapping of an accepted post is put at any time up to 27.5 s after
\* its caption is ready, the detached task calls send_message for the post.
C5_PutWithinWindowIsSent ==
    \A h \in Handlers :
        ( /\ TaskOver(h)
          /\ \E f \in PutsFor(h) : forwards[f].at <= handlers[h].ready + RetryWindow )
        => SendsOf(h) # {}

\* C6: if no mapping of the post's key is put by the end of the retry window, the
\* task sends nothing and ends in DiscussionUnresolved with exactly one error log.
C6_NoPutIsUnresolved ==
    \A h \in Handlers :
        ( /\ handlers[h].ready # NoneInt
          /\ \A f \in PutsFor(h) : forwards[f].at > handlers[h].ready + RetryWindow )
        => ( /\ SendsOf(h) = {}
             /\ handlers[h].pc \in {"CaptionReady", "sleep", "DiscussionUnresolved"}
             /\ handlers[h].log = IF handlers[h].pc = "DiscussionUnresolved"
                                  THEN <<"unresolved">> ELSE <<>>
             /\ now > handlers[h].ready + RetryWindow
                  => handlers[h].pc = "DiscussionUnresolved" )

\* a task gave up although the auto-forward of another post had been put
C6_Witness ==
    \E h \in Handlers :
        /\ handlers[h].pc = "DiscussionUnresolved"
        /\ handlers[h].log = <<"unresolved">>
        /\ now = handlers[h].ready + RetryWindow
        /\ PutsFor(h) = {}
        /\ forwards # <<>>
        /\ SendsOf(h) = {}

\* C7: the caption of a post is ready when the post arrives, at T0, and the
\* one auto-forward of the post is put at T0 + 3 s: exactly one send_message
\* is issued for the post, to the chat and as a reply to the message of that
\* auto-forward, with the generated caption, at a time in [T0 + 3 s, T0 + 4 s].
C7_EndToEnd ==
    \A h \in Handlers : \A f \in PutsFor(h) :
        ( /\ handlers[h].ready = handlers[h].at
          /\ forwards[f].at = handlers[h].ready + 3 * TicksPerSecond
          /\ PutsFor(h) = {f} )
        => ( /\ \A s \in SendsOf(h) :
                   /\ sent[s].chat_id = forwards[f].chat
                   /\ sent[s].reply_to_message_id = forwards[f].message_id
                   /\ sent[s].text = FunnyCaption(handlers[h].msg)
                   /\ sent[s].at >= handlers[h].ready + 3 * TicksPerSecond
                   /\ sent[s].at <= handlers[h].ready + 4 * TicksPerSecond
             /\ Cardinality(SendsOf(h)) <= 1
             /\ handlers[h].pc \in {"sleep", "CommentSent"}
             /\ (handlers[h].pc = "CommentSent" \/ now > handlers[h].ready + 4 * TicksPerSecond)
                   => Cardinality(SendsOf(h)) = 1 )

\* post (C,100) at T0, its auto-forward (D,555) at T0 + 3 s, the comment at T0 + 3.5 s
C7_Witness ==
    \E h \in Handlers : \E f \in PutsFor(h) :
        /\ KeyOf(h) = <<"C", 100>>
        /\ handlers[h].ready = handlers[h].at
        /\ PutsFor(h) = {f}
        /\ forwards[f].at = handlers[h].ready + 3 * TicksPerSecond
        /\ forwards[f].chat = "D" /\ forwards[f].message_id = 555
        /\ handlers[h].pc = "CommentSent"
        /\ \E s \in SendsOf(h) :
              /\ SendsOf(h) = {s}
              /\ sent[s].chat_id = "D" /\ sent[s].reply_to_message_id = 555
              /\ sent[s].text = FunnyCaption(handlers[h].msg)
              /\ 2 * sent[s].at = 2 * handlers[h].ready + 7 * TicksPerSecond

---------------------------------------------------------------------------
(* Discussion mapping table: C8 - C9, under SpecMap *)

\* C8: _discussion_map_get returns the stored ref (the task sends to it) and
\* leaves the table unchanged when the ref is at most 1 hour old; it removes
\* an older ref and returns absent (the task sleeps); with no entry it returns
\* absent and changes nothing.
C8_GetContract ==
    [][ \A h \in Handlers :
           (TaskStart(h) \/ TaskResume(h)) =>
             LET key == KeyOf(h)
                 found == /\ Len(sent') = Len(sent) + 1
                          /\ sent'[Len(sent')].handler = h
                          /\ sent'[Len(sent')].chat_id = _DISCUSSION_MAP[key].discussion_chat_id
                          /\ sent'[Len(sent')].reply_to_message_id
                                = _DISCUSSION_MAP[key].discussion_message_id
                 absent == sent' = sent /\ handlers'[h].pc = "sleep"
             IN  IF key \notin DOMAIN _DISCUSSION_MAP
                 THEN absent /\ _DISCUSSION_MAP' = _DISCUSSION_MAP
                 ELSE IF now - _DISCUSSION_MAP[key].ts <= _DISCUSSION_TTL_S
                      THEN found /\ _DISCUSSION_MAP' = _DISCUSSION_MAP
                      ELSE /\ absent
                           /\ DOMAIN _DISCUSSION_MAP' = DOMAIN _DISCUSSION_MAP \ {key}
                           /\ \A k \in DOMAIN _DISCUSSION_MAP' :
                                 _DISCUSSION_MAP'[k] = _DISCUSSION_MAP[k]
      ]_vars

\* a lookup removed a ref put an hour and half a second before, and the task sleeps
C8_Witness ==
    \E h \in Handlers : \E f \in PutsFor(h) :
        /\ PutsFor(h) = {f}
        /\ handlers[h].pc = "sleep" /\ handlers[h].i = 1
        /\ handlers[h].ready = forwards[f].at + _DISCUSSION_TTL_S + 1
        /\ KeyOf(h) \notin DOMAIN _DISCUSSION_MAP
        /\ SendsOf(h) = {}

\* the last put for a key
LastPut(key) ==
    LET F == {f \in 1..Len(forwards) : forwards[f].key = key}
    IN  forwards[CHOOSE f \in F : \A e \in F : e <= f]

\* C9: the table holds one ref per key, that of the most recent put for the key
\* (ids and timestamp); a put for one key leaves the refs of the other keys alone.
C9_LastWriteWins ==
    /\ DOMAIN _DISCUSSION_MAP \subseteq {forwards[f].key : f \in 1..Len(forwards)}
    /\ \A f \in 1..Len(forwards) :
          LET key == forwards[f].key
              last == LastPut(key)
          IN  /\ key \in DOMAIN _DISCUSSION_MAP
                   => _DISCUSSION_MAP[key]
                        = DiscussionRef(last.chat, last.message_id, last.at)
              /\ now - last.at <= _DISCUSSION_TTL_S => key \in DOMAIN _DISCUSSION_MAP

\* the second auto-forward of (C,100) replaced the first, an hour later
C9_Witness ==
    /\ Len(forwards) = 2
    /\ forwards[1].key = forwards[2].key
    /\ forwards[1].message_id # forwards[2].message_id
    /\ forwards[2].at = forwards[1].at + _DISCUSSION_TTL_S
    /\ _DISCUSSION_MAP[forwards[2].key]
         = DiscussionRef(forwards[2].chat, forwards[2].message_id, forwards[2].at)

\* the row has reached a terminal state: posted or skipped
Terminal(row) == row.posted_at # NoneInt \/ row.skipped_at # NoneInt

\* the polls published by the step
NewPolls == {polls'[i] : i \in (Len(polls) + 1)..Len(polls')}

\* C10: once a daily_poll row has posted_at or skipped_at set, no step of the
\* scheduler (invocations of run_poll_once one at a time, between the steps of
\* the handlers and the passing of time) changes a field of that row, and no
\* invocation publishes a poll for its (channel, date).
C10_TerminalRowIsFinal ==
    [][\A k \in DOMAIN daily_poll :
          Terminal(daily_poll[k]) =>
              /\ k \in DOMAIN daily_poll'
              /\ daily_poll'[k] = daily_poll[k]
              /\ \A poll \in NewPolls : <<poll.chat_id, poll.poll_date>> # k]_vars

\* C10 witness: a row is posted and the invocation after that, with the window
\* of the row's date still open, its posts recorded and another poll still
\* allowed, found nothing due.
C10_Witness ==
    \E k \in DOMAIN daily_poll :
        /\ daily_poll[k].posted_at # NoneInt
        /\ Len(polls) < MaxPolls
        /\ now <= end_dt(k[2])
        /\ count_posts_for_date(k[1], k[2]) >= daily_poll_min_posts
        /\ last_run = "no_due_polls"

---------------------------------------------------------------------------
(* Daily poll: C11 - C19 *)

\* C11: for every (channel, date) at most one poll is published, whatever the
\* outcomes of the download, the AI call, send_poll and mark_poll_posted.
C11_AtMostOnePollPerDate ==
    \A i, j \in 1..Len(polls) :
        (polls[i].chat_id = polls[j].chat_id /\ polls[i].poll_date = polls[j].poll_date)
            => i = j

\* the row k is pending, of a poll-configured channel, and the window of its date is over
PendingExpired(k) ==
    /\ ~Terminal(daily_poll[k])
    /\ k[1] \in daily_poll_channel_ids
    /\ now > end_dt(k[2])

\* the step publishes no poll for the row k
NoNewPollFor(k) == \A poll \in NewPolls : <<poll.chat_id, poll.poll_date>> # k

PostsOf(k) == {p \in posts : p.channel_id = k[1] /\ p.post_date = k[2]}

\* the row k is pending and due, of a poll-configured channel, with its window not over
PendingInWindow(k) ==
    /\ ~Terminal(daily_poll[k])
    /\ k[1] \in daily_poll_channel_ids
    /\ daily_poll[k].scheduled_at <= now
    /\ now <= end_dt(k[2])

\* the invocation ended on a failed download, AI call, send_poll or database call
TickFailed(reason) ==
    reason \in {"download_photo_failed", "ai_options_failed", "send_poll_failed", "exception"}

RecordedPoll(row, poll, k) ==
    /\ poll.chat_id = k[1]
    /\ poll.poll_date = k[2]
    /\ poll.reply_to_message_id = row.chosen_post_message_id
    /\ poll.message_id = row.poll_message_id
    /\ poll.question = row.question
    /\ poll.options = row.options

\* C14: whenever a step marks a row posted, chosen_post_message_id is the
\* message id of a ledger post of the row's channel and date, and the step
\* sent one poll, to that channel and as a reply to that message, whose
\* message id, question and options are the ones recorded on the row.
C14_PostedRowRecordsThePoll ==
    [][\A k \in DOMAIN daily_poll :
          (daily_poll[k].posted_at = NoneInt /\ daily_poll'[k].posted_at # NoneInt) =>
              /\ \E p \in PostsOf(k) : p.message_id = daily_poll'[k].chosen_post_message_id
              /\ \E poll \in NewPolls : RecordedPoll(daily_poll'[k], poll, k)
              /\ Cardinality(NewPolls) = 1]_vars

\* C14 witness: a row is posted while the ledger also holds a post of the
\* channel of another date; the poll on record replies to a post of the row's date.
C14_Witness ==
    \E k \in DOMAIN daily_poll :
        /\ daily_poll[k].posted_at = now
        /\ \E p \in posts : p.channel_id = k[1] /\ p.post_date # k[2]
        /\ \E p \in PostsOf(k) : p.message_id = daily_poll[k].chosen_post_message_id
        /\ \E i \in 1..Len(polls) : RecordedPoll(daily_poll[k], polls[i], k)

\* C15 ------------------------------------------------------------------------

MaxTextLen == 3

\* the characters of the AI's short answers
Alphabet == {"a", "b", ",", " ", "\n", "-"}

\* an answer of five different lines, and one of four parts between commas
FiveLines == <<"a", "\n", "b", "\n", "a", "a", "\n", "a", "b", "\n", "b", "a">>
CommaList == <<"a", ",", "b", ",", "a", "a", ",", "a", "b">>

\* the texts the AI service may answer with
Replies == UNION {[1..n -> Alphabet] : n \in 0..MaxTextLen} \cup {FiveLines, CommaList, UsualReply}

\* the values of settings.daily_poll_options_count: below, inside and above 2..4
OptionCounts == {1, 3, 5}

\* the ledger after the two posts of day 0 were recorded
RecordedPosts ==
    record_post(record_post({}, "C", 102, 0, <<"file", 102>>), "C", 103, 0, <<"file", 103>>)

\* the process restarts at noon of day 0 on a database that holds the two
\* posts of the day and their pending row, scheduled at the start of the
\* window; the AI service answers with any text, any options count is configured
InitOptions ==
    /\ now = 12 * HOUR
    /\ longWaits = 0
    /\ _PROCESSED_CHANNEL_MESSAGES = EmptyDict
    /\ _PROCESSED_MEDIA_GROUPS = EmptyDict
    /\ _DISCUSSION_MAP = EmptyDict
    /\ handlers = <<>>
    /\ sent = <<>>
    /\ forwards = <<>>
    /\ db_pool = TRUE
    /\ posts = RecordedPosts
    /\ daily_poll = ensure_daily_poll(EmptyDict, "C", 0, start_dt(0))
    /\ polls = <<>>
    /\ last_run = None
    /\ ai_text \in Replies
    /\ daily_poll_options_count \in OptionCounts
    /\ invocations = NoInvocations
    /\ ServiceUp

\* The background poller's ticks of that day.
NextOptions == run_poll_once(FALSE)

SpecOptions == InitOptions /\ [][NextOptions]_vars

\* the options of a poll: between lo and hi of them, none empty
OptionsWithin(options, lo, hi) ==
    /\ Len(options) >= lo
    /\ Len(options) <= hi
    /\ \A i \in 1..Len(options) : options[i] # <<>>

\* what generate_poll_options makes of the AI's answer
Generated == generate_poll_options(ai_text, "who wins?", daily_poll_options_count)

\* C15: every published poll has between 2 and 4 non-empty options;
\* generate_poll_options returns such a list, no longer than the options
\* count clamped to 2..4, or raises TimewebAIError, and then no poll is
\* published for the row.
C15_PollOptionsWellFormed ==
    /\ \A i \in 1..Len(polls) : OptionsWithin(polls[i].options, 2, 4)
    /\ \/ Generated.raised
       \/ /\ OptionsWithin(Generated.options, 2, 4)
          /\ daily_poll_options_count \in 2..4 =>
                 Len(Generated.options) <= daily_poll_options_count
          /\ daily_poll_options_count < 2 => Len(Generated.options) = 2
    /\ Generated.raised => polls = <<>>

\* a poll of four options is published from an answer of five lines under an
\* options count of five
C15_Witness ==
    /\ ai_text = FiveLines
    /\ daily_poll_options_count = 5
    /\ polls # <<>>
    /\ Len(polls[1].options) = 4
    /\ \E k \in DOMAIN daily_poll : daily_poll[k].posted_at # NoneInt

\* C16 ------------------------------------------------------------------------

\* the (channel, date) a poll was published for
PollKey(poll) == <<poll.chat_id, poll.poll_date>>

\* C16: a non-forced invocation of run_poll_once publishes a poll for a row
\* only at a time between the row's scheduled_at and the end of the window of
\* the row's date, both included.
C16_PublishedOnlyInWindow ==
    [][run_poll_once(FALSE) =>
          \A poll \in NewPolls :
              /\ PollKey(poll) \in DOMAIN daily_poll
              /\ daily_poll[PollKey(poll)].scheduled_at <= now
              /\ now <= end_dt(poll.poll_date)]_vars

\* C16 witness: the poller published the poll of day 1 at noon of day 1,
\* inside the window of day 1, while the row of day 0, whose window is over,
\* got no poll.
C16_Witness ==
    /\ \E i \in 1..Len(polls) :
           /\ polls[i].poll_date = 1
           /\ polls[i].at = DAY + 12 * HOUR
           /\ daily_poll[PollKey(polls[i])].scheduled_at <= polls[i].at
           /\ polls[i].at <= end_dt(1)
    /\ <<"C", 0>> \in DOMAIN daily_poll
    /\ \A i \in 1..Len(polls) : polls[i].poll_date # 0

\* C17 ------------------------------------------------------------------------

\* the (channel, date) of the post a handler works on
LedgerKey(h) == <<handlers[h].msg.chat, PostDate(h)>>

\* no post of the same (channel, date) was accepted before the handler's post
FirstAccepted(h) ==
    \A g \in 1..(h - 1) : ~(handlers[g].outcome = "Accepted" /\ LedgerKey(g) = LedgerKey(h))

\* the rows the step creates
NewRows == DOMAIN daily_poll' \ DOMAIN daily_poll

\* C17 as stated: one row per (channel, date), created by the first accepted
\* post of that date from a poll-configured channel; later posts of the same
\* (channel, date) leave the row unchanged.
C17_RowCreatedByFirstPost ==
    [][\A h \in 1..Len(handlers) :
           _ensure_poll_scheduled(h) =>
               /\ \A k \in DOMAIN daily_poll : k \in DOMAIN daily_poll' /\ daily_poll'[k] = daily_poll[k]
               /\ NewRows # {} => FirstAccepted(h)]_vars

\* C17 amended: one row per (channel, date), created by the ledger step of an
\* accepted post of that date from a poll-configured channel (with polling
\* enabled and a database pool), the first one whose ensure_daily_poll call is
\* made, which need not be the first accepted post; the ledger steps of the
\* other posts leave the row unchanged, and its scheduled_at never changes.
C17_RowCreatedOnceAndKept ==
    [][/\ \A k \in DOMAIN daily_poll :
              /\ k \in DOMAIN daily_poll'
              /\ daily_poll'[k].scheduled_at = daily_poll[k].scheduled_at
       /\ \A k \in NewRows :
              \E h \in 1..Len(handlers) :
                  /\ _ensure_poll_scheduled(h)
                  /\ handlers[h].outcome = "Accepted"
                  /\ LedgerKey(h) = k
                  /\ NewRows = {k}
                  /\ k[1] \in daily_poll_channel_ids /\ daily_poll_enabled /\ db_pool
       /\ \A h \in 1..Len(handlers) :
              _ensure_poll_scheduled(h) =>
                  \A k \in DOMAIN daily_poll : daily_poll'[k] = daily_poll[k]]_vars

\* the handler's ledger steps are over and none of them failed
LedgerDone(h) ==
    /\ handlers[h].outcome = "Accepted"
    /\ handlers[h].pc \notin {"cleanup", "record_post", "schedule"}
    /\ ~Contains(handlers[h].log, "ledger_failed")

\* C17 witness: two accepted posts of the same (channel, date) both went
\* through ensure_daily_poll, and the one row of that key is still pending
\* with the scheduled_at it was created with.
C17_Witness ==
    \E g, h \in 1..Len(handlers) :
        /\ g < h
        /\ LedgerKey(g) = LedgerKey(h)
        /\ LedgerDone(g) /\ LedgerDone(h)
        /\ LedgerKey(h) \in DOMAIN daily_poll
        /\ daily_poll[LedgerKey(h)] = PollRow(start_dt(PostDate(h)))

\* C18 ------------------------------------------------------------------------

\* C18 as stated: the scheduled_at of every row is inside the window of the
\* row's date, the start included and the end excluded.
C18_ScheduledBeforeWindowEnd ==
    \A k \in DOMAIN daily_poll :
        /\ start_dt(k[2]) <= daily_poll[k].scheduled_at
        /\ daily_poll[k].scheduled_at < end_dt(k[2])

\* C18 amended: the scheduled_at of every row is inside the window of the
\* row's date, both ends included.
C18_ScheduledInsideClosedWindow ==
    \A k \in DOMAIN daily_poll :
        /\ start_dt(k[2]) <= daily_poll[k].scheduled_at
        /\ daily_poll[k].scheduled_at <= end_dt(k[2])

\* C18 witness: a row of day 0 was created at the very end of its window and a
\* row of day 1 at the very start of its window.
C18_Witness ==
    /\ <<"C", 0>> \in DOMAIN daily_poll
    /\ daily_poll[<<"C", 0>>].scheduled_at = end_dt(0)
    /\ <<"C", 1>> \in DOMAIN daily_poll
    /\ daily_poll[<<"C", 1>>].scheduled_at = start_dt(1)

----------------------------------------------------------------------------
(* Daily poll: run_poll_once one suspension point at a time *)

MaxRacePosts == 2
MaxRaceWaits == 1

\* what a step of an invocation leaves alone besides the tables it writes
InvocationFrame ==
    <<now, longWaits, _PROCESSED_CHANNEL_MESSAGES, _PROCESSED_MEDIA_GROUPS, _DISCUSSION_MAP,
      handlers, sent, forwards, db_pool, posts, last_run, ai_text, daily_poll_options_count,
      telegram_app, poller_task, requests, shutdown, err>>

\* the invocation returns (reason "exception": it raises)
Returned(i, reason) == [invocations EXCEPT ![i].pc = "returned", ![i].reason = reason]

\* the loop of the invocation goes on to its next row
Continue(i) == [invocations EXCEPT ![i].pc = "row", ![i].due = Tail(@)]

\* the row the invocation works on
Row(i) == Head(invocations[i].due)

\* run_poll_once from its call to the answer of get_due_polls
InvocationStart(i, force) ==
    /\ invocations[i].pc = "idle"
    /\ db_pool
    /\ daily_poll_enabled
    /\ daily_poll_channel_ids # {}
    /\ LET rows == get_due_polls(daily_poll, now)
       IN  IF rows = {}
           THEN invocations' = [invocations EXCEPT ![i] =
                    [Idle EXCEPT !.pc = "returned", !.force = force, !.reason = "no_due_polls"]]
           ELSE \E due \in Orderings(rows) :
                    invocations' = [invocations EXCEPT ![i] =
                        [Idle EXCEPT !.pc = "row", !.force = force, !.due = due]]
    /\ UNCHANGED <<daily_poll, polls>>
    /\ UNCHANGED InvocationFrame

\* a tick of poller_loop: run_poll_once(state)
poller_loop == InvocationStart("poller", FALSE)

\* the administrative trigger: run_poll_once(api.state, force=True, ...)
admin_run_poll == InvocationStart("admin", TRUE)

\* the head of the loop up to the first await of the row: mark_poll_skipped
\* when the window is over, count_posts_for_date otherwise
RunRow(i) ==
    /\ invocations[i].pc = "row"
    /\ IF invocations[i].due = <<>>
       THEN invocations' = Returned(i, "no_poll_posted") /\ daily_poll' = daily_poll
       ELSE IF Row(i)[1] \notin daily_poll_channel_ids
       THEN invocations' = Continue(i) /\ daily_poll' = daily_poll
       ELSE IF now > end_dt(Row(i)[2]) /\ ~invocations[i].force
       THEN /\ daily_poll' = mark_poll_skipped(daily_poll, Row(i)[1], Row(i)[2])
            /\ invocations' = Continue(i)
       ELSE IF /\ count_posts_for_date(Row(i)[1], Row(i)[2]) < daily_poll_min_posts
               /\ ~invocations[i].force
       THEN invocations' = Continue(i) /\ daily_poll' = daily_poll
       ELSE invocations' = [invocations EXCEPT ![i].pc = "pick"] /\ daily_poll' = daily_poll
    /\ UNCHANGED polls
    /\ UNCHANGED InvocationFrame

\* await pick_random_post, and the check of the post's photo
RunPick(i) ==
    /\ invocations[i].pc = "pick"
    /\ LET picks == pick_random_post(Row(i)[1], Row(i)[2])
       IN  IF picks = {} THEN invocations' = Continue(i)
           ELSE \E post \in picks :
                    IF post.photo_file_id = None THEN invocations' = Continue(i)
                    ELSE invocations' = [invocations EXCEPT ![i].pc = "download",
                                                            ![i].post = post.message_id]
    /\ UNCHANGED <<daily_poll, polls>>
    /\ UNCHANGED InvocationFrame

\* await get_file and download_as_bytearray, then the choice of the question
RunDownload(i) ==
    /\ invocations[i].pc = "download"
    /\ \E ok \in BOOLEAN, question \in daily_poll_questions :
           IF ok THEN invocations' = [invocations EXCEPT ![i].pc = "generate",
                                                         ![i].question = question]
           ELSE invocations' = Returned(i, "download_photo_failed")
    /\ UNCHANGED <<daily_poll, polls>>
    /\ UNCHANGED InvocationFrame

\* await generate_poll_options: a list of options or TimewebAIError
RunGenerate(i) ==
    /\ invocations[i].pc = "generate"
    /\ LET got == generate_poll_options(ai_text, invocations[i].question, daily_poll_options_count)
       IN  \E ok \in BOOLEAN :
               IF ok /\ ~got.raised
               THEN invocations' = [invocations EXCEPT ![i].pc = "send",
                                                       ![i].options = got.options]
               ELSE invocations' = [invocations EXCEPT ![i].pc = "mark_error"]
    /\ UNCHANGED <<daily_poll, polls>>
    /\ UNCHANGED InvocationFrame

\* after TimewebAIError: await mark_poll_error
RunMarkError(i) ==
    /\ invocations[i].pc = "mark_error"
    /\ daily_poll' = mark_poll_error(daily_poll, Row(i)[1], Row(i)[2], "TimewebAIError")
    /\ invocations' = [invocations EXCEPT ![i].pc = "mark_skipped"]
    /\ UNCHANGED polls
    /\ UNCHANGED InvocationFrame

\* after TimewebAIError: await mark_poll_skipped, then return
RunMarkSkipped(i) ==
    /\ invocations[i].pc = "mark_skipped"
    /\ daily_poll' = mark_poll_skipped(daily_poll, Row(i)[1], Row(i)[2])
    /\ invocations' = Returned(i, "ai_options_failed")
    /\ UNCHANGED polls
    /\ UNCHANGED InvocationFrame

\* await bot.send_poll
RunSend(i) ==
    /\ invocations[i].pc = "send"
    /\ \E ok \in BOOLEAN :
           IF ok
           THEN LET poll == SentPoll(polls, Row(i)[1], Row(i)[2], invocations[i].question,
                                     invocations[i].options,
                                     [message_id |-> invocations[i].post])
                IN  /\ polls' = Append(polls, poll)
                    /\ invocations' = [invocations EXCEPT ![i].pc = "mark_posted",
                                                          ![i].poll_message_id = poll.message_id]
           ELSE /\ polls' = polls
                /\ invocations' = Returned(i, "send_poll_failed")
    /\ UNCHANGED daily_poll
    /\ UNCHANGED InvocationFrame

\* await mark_poll_posted, then return
RunMarkPosted(i) ==
    /\ invocations[i].pc = "mark_posted"
    /\ daily_poll' = mark_poll_posted(daily_poll, Row(i)[1], Row(i)[2],
                                      invocations[i].poll_message_id, invocations[i].post,
                                      invocations[i].question, invocations[i].options)
    /\ invocations' = Returned(i, "ok")
    /\ UNCHANGED polls
    /\ UNCHANGED InvocationFrame

\* an await on the database raises and the exception leaves run_poll_once
RunRaises(i) ==
    /\ invocations[i].pc \in {"pick", "mark_error", "mark_skipped", "mark_posted"}
    /\ invocations' = Returned(i, "exception")
    /\ UNCHANGED <<daily_poll, polls>>
    /\ UNCHANGED InvocationFrame

\* half a day passes while no invocation is between two of its awaits
RaceWait ==
    /\ \A i \in Invokers : invocations[i].pc \in {"idle", "returned"}
    /\ \E d \in PollSteps : LongWait(d, MaxRaceWaits)

\* One tick of the poller and one administrative forced run, interleaved at
\* their awaits with each other and with the handlers' ledger steps.
NextRace ==
    \/ \E msg \in PollPosts \ Delivered : handle_channel_photo_post(msg, MaxRacePosts)
    \/ \E h \in 1..Len(handlers) : HandlerCleanup(h)
    \/ \E h \in 1..Len(handlers) : HandlerRecordPost(h)
    \/ \E h \in 1..Len(handlers) : _ensure_poll_scheduled(h)
    \/ poller_loop
    \/ admin_run_poll
    \/ \E i \in Invokers : RunRow(i)
    \/ \E i \in Invokers : RunPick(i)
    \/ \E i \in Invokers : RunDownload(i)
    \/ \E i \in Invokers : RunGenerate(i)
    \/ \E i \in Invokers : RunMarkError(i)
    \/ \E i \in Invokers : RunMarkSkipped(i)
    \/ \E i \in Invokers : RunSend(i)
    \/ \E i \in Invokers : RunMarkPosted(i)
    \/ \E i \in Invokers : RunRaises(i)
    \/ RaceWait

SpecRace == InitPoll /\ [][NextRace]_vars

\* C19 ------------------------------------------------------------------------

\* the polls published for the row of key k
PollsFor(k) == {i \in 1..Len(polls) : PollKey(polls[i]) = k}

----------------------------------------------------------------------------
(* Concurrent handlers of the same update: C20 *)

MaxSameUpdates == 3
MaxSameForwards == 1
\* updates and auto-forwards of the pipeline with its ledger step
MaxLedgerPosts == 2
MaxLedgerForwards == 1
\* updates and idle days of the ledger's lazy cleanup
MaxCleanupPosts == 2
MaxCleanupWaits == 1
\* auto-forwards put while two posts are in flight
MaxInflightForwards == 2
\* half days that pass under the fair poller
MaxFairWaits == 1

\* Redeliveries of the update of one channel post while the handlers of the
\* earlier deliveries are suspended at their awaits or their tasks sleep.
NextConcurrent ==
    \/ \E msg \in FirstPost : handle_channel_photo_post(msg, MaxSameUpdates)
    \/ \E msg \in GroupMessages : handle_discussion_auto_forward(msg, MaxSameForwards)
    \/ Pipeline
    \/ WaitForWake

SpecConcurrent == Init /\ [][NextConcurrent]_vars

\* the handlers of the updates that carry the key of handler h and got as far
\* as the dedup check
SameKey(h) == {j \in Handlers : KeyOf(j) = KeyOf(h) /\ MarkCalled(j)}

\* the handler passed the check of _mark_processed_channel_message
Passed(h) == MarkCalled(h) /\ ~MarkReturned(h)

\* the handler created its comment task
Spawned(h) == handlers[h].ready # NoneInt

\* C20: of the handlers of updates with the same (chat_id, message_id) that
\* all run within the TTL, however they interleave at their awaits, exactly
\* one passes the check of _mark_processed_channel_message, and at most one
\* comment task is created for the message.
C20_OneHandlerPassesDedup ==
    \A h \in Handlers :
        (MarkCalled(h) /\ \A j \in SameKey(h) : handlers[h].at - handlers[j].at <= _CHANNEL_MSG_TTL_S)
            => /\ Cardinality({j \in SameKey(h) : Passed(j)}) = 1
               /\ Cardinality({j \in SameKey(h) : Spawned(j)}) <= 1

\* C20 witness: the update of a post is delivered again while the handler of
\* its first delivery awaits the caption, and once more after the task of the
\* first delivery was created; the two later handlers return at the check.
C20_Witness ==
    \E h, j, k \in Handlers :
        /\ h < j /\ j < k
        /\ KeyOf(j) = KeyOf(h) /\ KeyOf(k) = KeyOf(h)
        /\ Passed(h) /\ Spawned(h)
        /\ MarkReturned(j) /\ MarkReturned(k)
        /\ handlers[j].at <= handlers[h].ready
        /\ handlers[k].at > handlers[h].ready

----------------------------------------------------------------------------
(* Daily poll, failures and forced runs: C21 - C25 *)

\* the ledger rows of the three posts: (C,100) of day 0, (C,102) and (C,103) of day 1
LedgerRows ==
    { [PostRow("C", 100, 0, <<"file", 100>>) EXCEPT !.created_at = 12 * HOUR],
      [PostRow("C", 102, 1, <<"file", 102>>) EXCEPT !.created_at = DAY + 12 * HOUR],
      [PostRow("C", 103, 1, <<"file", 103>>) EXCEPT !.created_at = DAY + 12 * HOUR] }

\* the daily_poll tables the ledger steps of recorded posts can have left:
\* for each date with a recorded post, no row (the scheduling failed) or a
\* pending row scheduled at the start or at the end of the date's window
PendingTables(recorded) ==
    LET dates == {p.post_date : p \in recorded}
    IN  UNION { { [k \in {<<"C", d>> : d \in scheduled} |->
                      PollRow(IF k[2] \in early THEN start_dt(k[2]) ELSE end_dt(k[2]))]
                  : early \in SUBSET scheduled }
                : scheduled \in SUBSET dates }

\* the process restarts at noon of day 1 on a database that holds some of the
\* posts of days 0 and 1 and pending rows of their dates
InitForced ==
    /\ now = DAY + 12 * HOUR
    /\ longWaits = 0
    /\ _PROCESSED_CHANNEL_MESSAGES = EmptyDict
    /\ _PROCESSED_MEDIA_GROUPS = EmptyDict
    /\ _DISCUSSION_MAP = EmptyDict
    /\ handlers = <<>>
    /\ sent = <<>>
    /\ forwards = <<>>
    /\ db_pool = TRUE
    /\ posts \in SUBSET LedgerRows
    /\ daily_poll \in PendingTables(posts)
    /\ polls = <<>>
    /\ last_run = None
    /\ ai_text = UsualReply
    /\ daily_poll_options_count = 4
    /\ invocations = NoInvocations
    /\ ServiceUp

\* The poller's ticks and the administrative forced runs of that noon, one
\* invocation at a time.
NextForced == \E force \in BOOLEAN : run_poll_once(force)

SpecForced == InitForced /\ [][NextForced]_vars

\* the row is pending
Pending(k) == ~Terminal(daily_poll[k])

\* the step annotates the pending row k with the AI error and marks it skipped
AnnotatedAndSkipped(k) ==
    /\ Pending(k)
    /\ daily_poll'[k] = [daily_poll[k] EXCEPT !.last_error = "TimewebAIError",
                                              !.last_error_at = now,
                                              !.skipped_at = now]

\* the step marks the pending row k, whose window is over, skipped
WindowSkipped(k) ==
    /\ Pending(k)
    /\ now > end_dt(k[2])
    /\ daily_poll'[k] = [daily_poll[k] EXCEPT !.skipped_at = now]

\* C21: a tick in which generate_poll_options raises TimewebAIError for a due
\* row (it returns "ai_options_failed") records the error on that row and sets
\* its skipped_at, which is terminal, publishes no poll, and returns: every
\* other row is as it was, but for the expired rows that a non-forced tick
\* marked skipped on its way to that row.
C21_AiFailureSkipsRow ==
    [][\A force \in BOOLEAN :
           (run_poll_once(force) /\ last_run' = "ai_options_failed") =>
               /\ NewPolls = {}
               /\ \E k \in DOMAIN daily_poll :
                      /\ AnnotatedAndSkipped(k)
                      /\ k \notin get_due_polls(daily_poll', now + DAY)
                      /\ \A j \in DOMAIN daily_poll \ {k} :
                             \/ daily_poll'[j] = daily_poll[j]
                             \/ ~force /\ WindowSkipped(j)]_vars

\* C21 witness: the tick failed on the AI call for one row, which is skipped
\* with the error recorded, and another due row with posts is still pending.
C21_Witness ==
    /\ last_run = "ai_options_failed"
    /\ polls = <<>>
    /\ \E k, j \in DOMAIN daily_poll :
           /\ k # j
           /\ daily_poll[k].skipped_at = now
           /\ daily_poll[k].last_error = "TimewebAIError"
           /\ daily_poll[k].posted_at = NoneInt
           /\ Pending(j)
           /\ daily_poll[j].scheduled_at <= now
           /\ PostsOf(j) # {}

\* C22 ------------------------------------------------------------------------

\* the row carries an error annotation
Annotated(row) == row.last_error # None

\* C22 as stated: a tick in which the AI option generation fails for a due
\* row leaves the row pending with the error annotation, and the row is still
\* due for a later tick.
C22_AiFailureLeavesRowPending ==
    [][\A force \in BOOLEAN :
           (run_poll_once(force) /\ last_run' = "ai_options_failed") =>
               \E k \in DOMAIN daily_poll :
                   /\ Pending(k)
                   /\ Annotated(daily_poll'[k])
                   /\ ~Terminal(daily_poll'[k])
                   /\ k \in get_due_polls(daily_poll', now)]_vars

\* C22 amended: a tick in which generate_poll_options raises TimewebAIError
\* for a due row leaves the row annotated and skipped, and no later tick
\* selects it; a row is pending with an error annotation after a tick only
\* when it was so before or when the tick ended in an exception (the update
\* that marks it skipped raised).
C22_AiFailureIsTerminal ==
    [][\A force \in BOOLEAN :
           run_poll_once(force) =>
               /\ last_run' = "ai_options_failed" =>
                      \E k \in DOMAIN daily_poll :
                          /\ Pending(k)
                          /\ Annotated(daily_poll'[k])
                          /\ daily_poll'[k].skipped_at = now
                          /\ k \notin get_due_polls(daily_poll', now)
               /\ \A k \in DOMAIN daily_poll :
                      (Annotated(daily_poll'[k]) /\ ~Terminal(daily_poll'[k])) =>
                          \/ Annotated(daily_poll[k])
                          \/ last_run' = "exception"]_vars

\* C22 witness: the row of day 1 was skipped on an AI failure and carries the
\* error, and the tick after it found no due row.
C22_Witness ==
    /\ last_run = "no_due_polls"
    /\ <<"C", 1>> \in DOMAIN daily_poll
    /\ Annotated(daily_poll[<<"C", 1>>])
    /\ daily_poll[<<"C", 1>>].skipped_at = now
    /\ daily_poll[<<"C", 1>>].scheduled_at <= now
    /\ polls = <<>>

\* C23 ------------------------------------------------------------------------

\* poller_loop sleeps 60 s between two ticks
TickPeriod == 60 * TicksPerSecond

\* the tick returned on a TelegramError of the download or of send_poll
TelegramFailed(reason) == reason \in {"download_photo_failed", "send_poll_failed"}

\* C23: a tick that returns on a failed photo download or a failed send_poll
\* publishes nothing and sets neither posted_at nor skipped_at on the row it
\* worked on, which the next tick finds due again, nor on any other row, but
\* for the expired rows a non-forced tick marked skipped on its way.
C23_TelegramFailureLeavesRowDue ==
    [][\A force \in BOOLEAN :
           (run_poll_once(force) /\ TelegramFailed(last_run')) =>
               /\ NewPolls = {}
               /\ \A k \in DOMAIN daily_poll :
                      \/ daily_poll'[k] = daily_poll[k]
                      \/ ~force /\ WindowSkipped(k)
               /\ \E k \in get_due_polls(daily_poll, now) :
                      /\ force \/ now <= end_dt(k[2])
                      /\ PostsOf(k) # {}
                      /\ daily_poll'[k] = daily_poll[k]
                      /\ k \in get_due_polls(daily_poll', now + TickPeriod)]_vars

\* C23 witness: send_poll failed for the row of day 1; that row and the
\* expired row of day 0, which came after it in the result set, are pending.
C23_Witness ==
    /\ last_run = "send_poll_failed"
    /\ polls = <<>>
    /\ {<<"C", 0>>, <<"C", 1>>} \subseteq get_due_polls(daily_poll, now)
    /\ Cardinality(PostsOf(<<"C", 1>>)) = 2
    /\ \A k \in DOMAIN daily_poll : daily_poll[k] = PollRow(start_dt(k[2]))

\* C24 ------------------------------------------------------------------------

\* the rows the step changes
ChangedRows == {k \in DOMAIN daily_poll : daily_poll'[k] # daily_poll[k]}

\* C24 as stated: a non-forced invocation of run_poll_once changes the state
\* of at most one row.
C24_OneRowPerTick ==
    [][run_poll_once(FALSE) => Cardinality(ChangedRows) <= 1]_vars

\* C24 amended: a non-forced invocation of run_poll_once publishes at most
\* one poll and posts, or annotates and skips, at most one row; the other rows
\* it changes are expired rows that it marks skipped on its way to that row.
C24_OneActionableRowPerTick ==
    [][run_poll_once(FALSE) =>
           /\ Cardinality(NewPolls) <= 1
           /\ Cardinality({k \in ChangedRows : ~WindowSkipped(k)}) <= 1
           /\ \A k \in ChangedRows : Pending(k)]_vars

\* C24 witness: at noon of day 1 the expired row of day 0 is marked skipped
\* and the row of day 1 is posted, with the one poll of the day.
C24_Witness ==
    /\ last_run = "ok"
    /\ Len(polls) = 1
    /\ {<<"C", 0>>, <<"C", 1>>} \subseteq DOMAIN daily_poll
    /\ daily_poll[<<"C", 0>>] = [PollRow(start_dt(0)) EXCEPT !.skipped_at = now]
    /\ daily_poll[<<"C", 1>>].posted_at = now
    /\ daily_poll[<<"C", 1>>].skipped_at = NoneInt
    /\ daily_poll[<<"C", 1>>].poll_message_id = polls[1].message_id

\* C25 ------------------------------------------------------------------------

\* the due row k belongs to a configured channel and has a post with a photo
Actionable(k) ==
    /\ k \in get_due_polls(daily_poll, now)
    /\ k[1] \in daily_poll_channel_ids
    /\ \E p \in PostsOf(k) : p.photo_file_id # None

\* how an invocation ends once it has picked a post: at the download, the
\* options, the publication, or a database call that raised
Proceeded(reason) ==
    reason \in {"download_photo_failed", "ai_options_failed", "send_poll_failed", "ok", "exception"}

\* C25: a forced invocation of run_poll_once marks no row skipped because its
\* window is over (a row it marks skipped carries the AI failure of this tick)
\* and, when some due row of a configured channel has a post with a photo, it
\* goes on to the download, the options and the publication, whether now is past
\* the end of the window or the posts are fewer than the minimum.
C25_ForcedBypassesWindowAndMinPosts ==
    [][run_poll_once(TRUE) =>
           /\ \A k \in ChangedRows :
                  daily_poll'[k].skipped_at # NoneInt => AnnotatedAndSkipped(k)
           /\ (\E k \in DOMAIN daily_poll : Actionable(k)) => Proceeded(last_run')]_vars

\* C25 witness: the poll of day 0, a day with one post (fewer than the
\* minimum), is published and its row posted at noon of day 1, after the end
\* of its window.
C25_Witness ==
    /\ <<"C", 0>> \in DOMAIN daily_poll
    /\ now > end_dt(0)
    /\ Cardinality(PostsOf(<<"C", 0>>)) = 1
    /\ Cardinality(PostsOf(<<"C", 0>>)) < daily_poll_min_posts
    /\ daily_poll[<<"C", 0>>].posted_at = now
    /\ daily_poll[<<"C", 0>>].skipped_at = NoneInt
    /\ \E i \in 1..Len(polls) : /\ polls[i].poll_date = 0
                                /\ polls[i].reply_to_message_id = 100
                                /\ polls[i].message_id = daily_poll[<<"C", 0>>].poll_message_id

---------------------------------------------------------------------------
(* The comment pipeline, failures and rejections: C26 - C30 *)

\* what handler h wrote to the log
Logged(h, entry) == \E n \in 1..Len(handlers[h].log) : handlers[h].log[n] = entry

\* C26: a handler whose generate_funny_caption raised TimewebAIError is in
\* CaptionFailed with the failure logged once: no task was created (no
\* readiness time), no lookup of the mapping was made for it (no loop pass),
\* no send_message was issued, and nothing of the handler changes afterwards
\* (the caption call is not repeated).
C26_CaptionFailureHalts ==
    /\ [](\A h \in Handlers :
             Logged(h, "caption_failed") =>
                 /\ handlers[h].pc = "CaptionFailed"
                 /\ handlers[h].log = <<"caption_failed">>
                 /\ handlers[h].caption = <<>>
                 /\ handlers[h].ready = NoneInt
                 /\ handlers[h].i = 0
                 /\ handlers[h].wake = NoneInt
                 /\ SendsOf(h) = {})
    /\ [][\A h \in Handlers :
             handlers[h].pc = "CaptionFailed" => handlers'[h] = handlers[h]]_vars

\* C26 witness: the caption of an accepted post failed and its auto-forward
\* was stored in the mapping: nothing was sent.
C26_Witness ==
    \E h \in Handlers :
        /\ handlers[h].outcome = "Accepted"
        /\ handlers[h].pc = "CaptionFailed"
        /\ PutsFor(h) # {}
        /\ KeyOf(h) \in DOMAIN _DISCUSSION_MAP
        /\ sent = <<>>

\* C29 ------------------------------------------------------------------------

\* the step issues a send_message for handler h
Sends(h) == \E s \in (Len(sent) + 1)..Len(sent') : sent'[s].handler = h

\* C29: the task of an accepted post calls send_message at most once: in the
\* loop pass whose lookup finds the ref, after which it is over (CommentSent)
\* whether the call returned or raised; a call that raised is logged once, and
\* a task that is over makes no further pass: no lookup, no sleep, no send.
C29_OneSendAttempt ==
    /\ [](\A h \in Handlers :
             /\ Cardinality(SendsOf(h)) <= 1
             /\ SendsOf(h) # {} <=> handlers[h].pc = "CommentSent"
             /\ Logged(h, "send_failed") =>
                    /\ handlers[h].pc = "CommentSent"
                    /\ handlers[h].log = <<"send_failed">>
             /\ \A s \in SendsOf(h) : /\ handlers[h].outcome = "Accepted"
                                      /\ sent[s].text = handlers[h].caption
                                      /\ sent[s].at >= handlers[h].ready)
    /\ [][\A h \in Handlers :
             /\ Sends(h) =>
                    /\ handlers[h].pc \in {"CaptionReady", "sleep"}
                    /\ _discussion_map_get(handlers[h].msg.chat, handlers[h].msg.message_id).ret # NoRef
                    /\ handlers'[h].pc = "CommentSent"
                    /\ Len(sent') = Len(sent) + 1
             /\ handlers[h].pc = "CommentSent" =>
                    /\ handlers'[h] = handlers[h]
                    /\ ~Sends(h)]_vars

\* C29 witness: the one send_message of a post raised, it was logged, and time
\* has passed since: there is still one attempt.
C29_Witness ==
    \E h \in Handlers :
        /\ handlers[h].pc = "CommentSent"
        /\ Logged(h, "send_failed")
        /\ Cardinality(SendsOf(h)) = 1
        /\ \A s \in SendsOf(h) : now > sent[s].at

\* C30 ------------------------------------------------------------------------

\* the time of the last lookup of a task that is asleep or has given up: the
\* pass that made it went to sleep for delays[i] at once
LastLookup(h) == handlers[h].wake - delays[handlers[h].i]

\* C30: every delay of the schedule is followed by a lookup (the step of a
\* task whose sleep is over is a loop pass), and the last lookup of a task that
\* gave up was made 27.5 s after its caption was ready.
C30_LookupAfterEachDelay ==
    /\ [][\A h \in Handlers :
             (handlers[h].pc = "sleep" /\ handlers'[h] # handlers[h]) =>
                 handlers'[h].i = handlers[h].i + 1]_vars
    /\ [](\A h \in Handlers :
             handlers[h].pc = "DiscussionUnresolved" =>
                 LastLookup(h) = handlers[h].ready + RetryWindow)

---------------------------------------------------------------------------
(* The pipeline with its ledger step: C27, C28 *)

\* an album of two photos of channel C and a photo of a channel that is not allowed
LedgerPosts == {msg \in ChannelPosts : msg.message_id \in {100, 101}}

\* the auto-forward of (C,100)
LedgerForwards == {msg \in GroupMessages : msg.message_id = 555}

\* The whole handler with a database pool: intake, the ledger step with each of
\* its awaits returning or raising, download, caption and the detached task.
NextLedger ==
    \/ \E msg \in LedgerPosts : handle_channel_photo_post(msg, MaxLedgerPosts)
    \/ \E msg \in LedgerForwards : handle_discussion_auto_forward(msg, MaxLedgerForwards)
    \/ \E h \in 1..Len(handlers) : HandlerCleanup(h)
    \/ \E h \in 1..Len(handlers) : HandlerRecordPost(h)
    \/ \E h \in 1..Len(handlers) : _ensure_poll_scheduled(h)
    \/ Pipeline
    \/ WaitForWake

SpecLedger == InitPoll /\ [][NextLedger]_vars

\* the handler is inside _record_post_for_poll_if_needed
InLedger(h) == handlers[h].pc \in {"cleanup", "record_post", "schedule"}

\* C27: an exception raised by the cleanup, the insert or the scheduling of the
\* ledger step is logged and the handler goes on at the download, as after a
\* ledger step that succeeded: from there the download, the caption request
\* and the start of the task are enabled whether the failure was logged or not.
C27_LedgerFailureDoesNotAbort ==
    /\ [][\A h \in Handlers :
             (InLedger(h) /\ Logged(h, "ledger_failed")' ) =>
                 handlers'[h] = [handlers[h] EXCEPT !.pc = "download",
                                                    !.log = <<"ledger_failed">>]]_vars
    /\ [](\A h \in Handlers :
             /\ Logged(h, "ledger_failed") =>
                    /\ handlers[h].outcome = "Accepted"
                    /\ ~InLedger(h)
                    /\ handlers[h].pc # "returned"
             /\ handlers[h].pc = "download" => ENABLED HandlerDownload(h)
             /\ handlers[h].pc = "CaptionRequested" => ENABLED HandlerCaption(h)
             /\ handlers[h].pc = "CaptionReady" => ENABLED TaskStart(h))

\* C27 witness: the ledger step of an accepted post failed, nothing was
\* recorded, and the comment of the post was sent.
C27_Witness ==
    \E h \in Handlers :
        /\ Logged(h, "ledger_failed")
        /\ posts = {}
        /\ handlers[h].pc = "CommentSent"
        /\ handlers[h].log = <<"ledger_failed">>
        /\ SendsOf(h) # {}

\* C28 ------------------------------------------------------------------------

\* the handler returned at one of the intake checks
Rejected(h) ==
    handlers[h].outcome \in {"not_allowed", "duplicate_message", "duplicate_media_group"}

\* the step is the intake of an update that is rejected
Rejects == Len(handlers') = Len(handlers) + 1 /\ NewHandler.outcome # "Accepted"

\* C28: a handler that returned at the allow-list, at the (chat, message) key
\* or at the media group has done nothing and does nothing afterwards: no
\* download, no caption, no task, no log entry, no send_message; its intake
\* writes neither table of the ledger (the rows there are those of accepted
\* posts), and the intake of an update rejected by the allow-list leaves the
\* two dedup stores as they were.
C28_RejectionIsSilent ==
    /\ [](\A h \in Handlers :
             Rejected(h) =>
                 /\ handlers[h].pc = "returned"
                 /\ handlers[h].caption = <<>>
                 /\ handlers[h].ready = NoneInt
                 /\ handlers[h].i = 0
                 /\ handlers[h].wake = NoneInt
                 /\ handlers[h].log = <<>>
                 /\ SendsOf(h) = {})
    /\ [](\A p \in posts : \E h \in Handlers :
             /\ handlers[h].outcome = "Accepted"
             /\ KeyOf(h) = <<p.channel_id, p.message_id>>)
    /\ [](\A k \in DOMAIN daily_poll : \E h \in Handlers :
             /\ handlers[h].outcome = "Accepted"
             /\ handlers[h].msg.chat = k[1])
    /\ [][/\ \A h \in Handlers : Rejected(h) => handlers'[h] = handlers[h]
          /\ Rejects => UNCHANGED <<posts, daily_poll, polls, sent, _DISCUSSION_MAP, forwards>>
          /\ (Rejects /\ NewHandler.outcome = "not_allowed") =>
                 UNCHANGED <<_PROCESSED_CHANNEL_MESSAGES, _PROCESSED_MEDIA_GROUPS>>]_vars

\* C28 witness: the post of a channel outside the allow-list was rejected and
\* left no key in the dedup store; the post of the allowed channel was
\* answered, and the ledger holds that post alone.
C28_Witness ==
    \E h, a \in Handlers :
        /\ handlers[h].outcome = "not_allowed"
        /\ KeyOf(h) \notin DOMAIN _PROCESSED_CHANNEL_MESSAGES
        /\ handlers[a].outcome = "Accepted"
        /\ handlers[a].pc = "CommentSent"
        /\ posts # {}
        /\ \A p \in posts : <<p.channel_id, p.message_id>> = KeyOf(a)
        /\ Len(sent) = 1

---------------------------------------------------------------------------
(* The ledger's lazy cleanup: C34 *)

\* days=30 at the call of maybe_cleanup_old_posts
RetentionDays == 30

\* noon of the day on which the process is observed
CleanupNoon == 40 * DAY + 12 * HOUR

\* a row of posts created at created_at
StoredPost(message_id, created_at) ==
    [PostRow("C", message_id, DateOf(created_at), <<"file", message_id>>) EXCEPT !.created_at = created_at]

\* a post created half a second more than 30 days before that noon
ExpiredPost == StoredPost(90, CleanupNoon - RetentionDays * DAY - 1)

\* posts created 30 days before that noon to the instant, 29 days before it,
\* and an hour before it
KeptPosts ==
    { StoredPost(91, CleanupNoon - RetentionDays * DAY),
      StoredPost(92, CleanupNoon - (RetentionDays - 1) * DAY),
      StoredPost(93, CleanupNoon - HOUR) }

\* the process is up at that noon on a ledger that holds the expired post
InitCleanup ==
    /\ now = CleanupNoon
    /\ longWaits = 0
    /\ _PROCESSED_CHANNEL_MESSAGES = EmptyDict
    /\ _PROCESSED_MEDIA_GROUPS = EmptyDict
    /\ _DISCUSSION_MAP = EmptyDict
    /\ handlers = <<>>
    /\ sent = <<>>
    /\ forwards = <<>>
    /\ db_pool = TRUE
    /\ posts \in {{ExpiredPost} \cup kept : kept \in SUBSET KeptPosts}
    /\ daily_poll = EmptyDict
    /\ polls = <<>>
    /\ last_run = None
    /\ ai_text = UsualReply
    /\ daily_poll_options_count = 4
    /\ invocations = NoInvocations
    /\ ServiceUp

\* Posts arrive, or a day passes without any: the ledger step of the handler
\* is the only caller of maybe_cleanup_old_posts.
NextCleanup ==
    \/ \E msg \in PollPosts : handle_channel_photo_post(msg, MaxCleanupPosts)
    \/ \E h \in 1..Len(handlers) : HandlerCleanup(h)
    \/ \E h \in 1..Len(handlers) : HandlerRecordPost(h)
    \/ \E h \in 1..Len(handlers) : _ensure_poll_scheduled(h)
    \/ \E d \in DaySteps : LongWait(d, MaxCleanupWaits)

SpecCleanup == InitCleanup /\ [][NextCleanup]_vars

\* the step is the return of maybe_cleanup_old_posts in handler h
CleanupReturns(h) == handlers[h].pc = "cleanup" /\ handlers'[h].pc = "record_post"

\* C34: maybe_cleanup_old_posts(today) leaves the ledger as it is when it
\* holds a post of today; otherwise it deletes the posts created more than 30
\* days ago and keeps every other post.  No other step deletes a post: while
\* days pass and no post arrives, posts older than 30 days stay in the ledger.
C34_CleanupOnFirstPostOfDay ==
    /\ [][\A h \in Handlers :
             CleanupReturns(h) =>
                 IF \E p \in posts : p.post_date = PostDate(h)
                 THEN posts' = posts
                 ELSE /\ posts' \subseteq posts
                      /\ \A p \in posts :
                             p \in posts' <=> p.created_at >= now - RetentionDays * DAY]_vars
    /\ [][~(posts \subseteq posts') => \E h \in Handlers : CleanupReturns(h)]_vars
    /\ [][now' # now => posts' = posts]_vars

\* C34 witness: the first post of the day was recorded: the post created more
\* than 30 days ago is gone, the post created 30 days ago to the instant is kept.
C34_Witness ==
    /\ now = CleanupNoon
    /\ ExpiredPost \notin posts
    /\ StoredPost(91, CleanupNoon - RetentionDays * DAY) \in posts
    /\ \E h \in Handlers : \E p \in posts : /\ KeyOf(h) = <<p.channel_id, p.message_id>>
                                           /\ p.post_date = PostDate(h)

---------------------------------------------------------------------------
(* Failures after the dedup marks: C35 *)

\* the accepted post's download raised or its caption failed
FailedAfterMark(h) ==
    /\ handlers[h].outcome = "Accepted"
    /\ handlers[h].pc \in {"download_failed", "CaptionFailed"}

\* handler g got the same message as h, or a photo of the same album
SamePost(g, h) ==
    \/ KeyOf(g) = KeyOf(h)
    \/ handlers[g].msg.chat = handlers[h].msg.chat /\ GroupOf(h) # None /\ GroupOf(g) = GroupOf(h)

\* C35: after the download or the caption of an accepted post failed, its
\* (chat, message) key and its album stay marked with the time of the intake;
\* a redelivery of the message or another photo of the album that arrives
\* within the TTL is rejected, and no comment is ever sent for the post.
C35_MarksSurviveFailure ==
    \A h \in Handlers :
        FailedAfterMark(h) =>
            /\ KeyOf(h) \in DOMAIN _PROCESSED_CHANNEL_MESSAGES
            /\ _PROCESSED_CHANNEL_MESSAGES[KeyOf(h)] = handlers[h].at
            /\ GroupOf(h) # None =>
                   /\ GroupOf(h) \in DOMAIN _PROCESSED_MEDIA_GROUPS
                   /\ _PROCESSED_MEDIA_GROUPS[GroupOf(h)] = handlers[h].at
            /\ \A g \in Handlers :
                   ( /\ g > h
                     /\ SamePost(g, h)
                     /\ handlers[g].at - handlers[h].at < _CHANNEL_MSG_TTL_S ) =>
                       /\ handlers[g].outcome \in {"duplicate_message", "duplicate_media_group"}
                       /\ handlers[g].pc = "returned"
            /\ \A g \in Handlers : SamePost(g, h) => SendsOf(g) = {}

\* C35 witness: the download of (C,100) raised; the message was delivered
\* again, was rejected as a duplicate, and nothing was sent although the
\* auto-forward of the post is in the mapping.
C35_Witness ==
    \E h, g \in Handlers :
        /\ FailedAfterMark(h)
        /\ handlers[h].pc = "download_failed"
        /\ g > h
        /\ KeyOf(g) = KeyOf(h)
        /\ handlers[g].outcome = "duplicate_message"
        /\ KeyOf(h) \in DOMAIN _DISCUSSION_MAP
        /\ sent = <<>>

---------------------------------------------------------------------------
(* Several posts in flight: C36 *)

\* the auto-forwards of (C,100) and (C,103)
AutoForwards == {msg \in GroupMessages : _extract_origin_channel_and_msg_id(msg) # NoOriginKey}

\* The posts (C,100) and (C,103) are delivered once each, their handlers and
\* tasks interleave, and the auto-forwards arrive in any order.
NextInflight ==
    \/ \E msg \in ForwardedPosts \ Delivered : handle_channel_photo_post(msg, Cardinality(ForwardedPosts))
    \/ \E msg \in AutoForwards : handle_discussion_auto_forward(msg, MaxInflightForwards)
    \/ Pipeline
    \/ WaitForWake

SpecInflight == Init /\ [][NextInflight]_vars

\* the send_message calls the step issues
NewSends == {sent'[s] : s \in (Len(sent) + 1)..Len(sent')}

\* C36: every send_message issued by the task of post (C, m) replies to the
\* discussion message that the mapping holds under (C, m) when the task looks
\* it up, with the caption of that post; the message is an auto-forward of
\* (C, m), never the one of another post.
C36_CommentGoesToOwnDiscussion ==
    /\ [][\A call \in NewSends :
             LET h == call.handler
             IN  /\ KeyOf(h) \in DOMAIN _DISCUSSION_MAP
                 /\ call.chat_id = _DISCUSSION_MAP[KeyOf(h)].discussion_chat_id
                 /\ call.reply_to_message_id = _DISCUSSION_MAP[KeyOf(h)].discussion_message_id
                 /\ call.text = handlers[h].caption]_vars
    /\ [](\A s \in 1..Len(sent) :
             \E f \in PutsFor(sent[s].handler) :
                 /\ forwards[f].chat = sent[s].chat_id
                 /\ forwards[f].message_id = sent[s].reply_to_message_id
                 /\ forwards[f].at <= sent[s].at)

\* C36 witness: the auto-forward of (C,103) arrived before the one of (C,100)
\* while both tasks were waiting, and each post got its comment under its own
\* discussion message.
C36_Witness ==
    /\ Len(forwards) = 2
    /\ forwards[1].key = <<"C", 103>>
    /\ forwards[2].key = <<"C", 100>>
    /\ \E a, b \in Handlers :
           /\ KeyOf(a) = <<"C", 100>>
           /\ KeyOf(b) = <<"C", 103>>
           /\ handlers[a].ready < forwards[1].at
           /\ handlers[b].ready < forwards[1].at
           /\ \E s \in SendsOf(a) : sent[s].reply_to_message_id = forwards[2].message_id
           /\ \E s \in SendsOf(b) : sent[s].reply_to_message_id = forwards[1].message_id

---------------------------------------------------------------------------
(* Forced runs and the schedule: C37 *)

\* the row is pending and its scheduled_at has come
Due(k) ==
    /\ k \in DOMAIN daily_poll
    /\ daily_poll[k].posted_at = NoneInt
    /\ daily_poll[k].skipped_at = NoneInt
    /\ daily_poll[k].scheduled_at <= now

\* C37: an invocation of run_poll_once, forced or not, changes only rows that
\* are pending and whose scheduled_at is not later than the time of the
\* invocation, and publishes polls for such rows only.
C37_OnlyDueRowsAreActedOn ==
    [][\A force \in BOOLEAN :
           run_poll_once(force) =>
               /\ \A k \in ChangedRows : Due(k)
               /\ \A poll \in NewPolls : Due(PollKey(poll))]_vars

\* C37 witness: a forced run published the poll of day 0 after its window
\* with one post, and a run after it found nothing due: the row of day 1,
\* scheduled at the end of its window, is untouched at noon although the day
\* has two posts.
C37_Witness ==
    /\ {<<"C", 0>>, <<"C", 1>>} \subseteq DOMAIN daily_poll
    /\ daily_poll[<<"C", 0>>].posted_at = now
    /\ Cardinality(PostsOf(<<"C", 0>>)) = 1
    /\ daily_poll[<<"C", 1>>] = PollRow(end_dt(1))
    /\ now < end_dt(1)
    /\ Cardinality(PostsOf(<<"C", 1>>)) = 2
    /\ last_run = "no_due_polls"
    /\ \A i \in 1..Len(polls) : polls[i].poll_date # 1

---------------------------------------------------------------------------
(* The poller under fair scheduling: C38 *)

\* a pending row of a channel that is no longer in DAILY_POLL_CHANNEL_IDS
StrayKey == <<"X", 0>>

\* the process restarts at noon of day 1 on a database that holds some of the
\* posts of days 0 and 1, pending rows of their dates and, possibly, the row
\* of the channel that left the settings
InitFair ==
    /\ now = DAY + 12 * HOUR
    /\ longWaits = 0
    /\ _PROCESSED_CHANNEL_MESSAGES = EmptyDict
    /\ _PROCESSED_MEDIA_GROUPS = EmptyDict
    /\ _DISCUSSION_MAP = EmptyDict
    /\ handlers = <<>>
    /\ sent = <<>>
    /\ forwards = <<>>
    /\ db_pool = TRUE
    /\ posts \in SUBSET LedgerRows
    /\ \E table \in PendingTables(posts) :
           daily_poll \in {table, DictPut(table, StrayKey, PollRow(start_dt(0)))}
    /\ polls = <<>>
    /\ last_run = None
    /\ ai_text = UsualReply
    /\ daily_poll_options_count = 4
    /\ invocations = NoInvocations
    /\ telegram_app = TRUE
    /\ poller_task = [NoTask EXCEPT !.pc = "run", !.ticks = 1]
    /\ requests = <<>>
    /\ shutdown = "idle"
    /\ err = None

\* poller_loop calls run_poll_once(state)
PollerCalls == poller_task.pc = "run" /\ poller_loop

\* a step of the poller's invocation of run_poll_once whose await succeeds on
\* the database side
PollerRuns ==
    \/ RunRow("poller")
    \/ RunPick("poller")
    \/ RunDownload("poller")
    \/ RunGenerate("poller")
    \/ RunMarkError("poller")
    \/ RunMarkSkipped("poller")
    \/ RunSend("poller")
    \/ RunMarkPosted("poller")

\* mutant: an exception of run_poll_once leaves poller_loop
PollerSleeps_exiting ==
    /\ poller_task.pc = "run"
    /\ invocations["poller"].pc = "returned"
    /\ poller_task' = IF invocations["poller"].reason = "exception"
                      THEN [poller_task EXCEPT !.pc = "failed"]
                      ELSE [poller_task EXCEPT !.pc = "sleep", !.wake = now + TickPeriod]
    /\ invocations' = [invocations EXCEPT !["poller"] = Idle]
    /\ last_run' = invocations["poller"].reason
    /\ UNCHANGED <<now, longWaits, _PROCESSED_CHANNEL_MESSAGES, _PROCESSED_MEDIA_GROUPS,
                   _DISCUSSION_MAP, handlers, sent, forwards, db_pool, posts, daily_poll, polls,
                   ai_text, daily_poll_options_count, telegram_app, requests, shutdown, err>>

\* run_poll_once returned or raised: `except Exception: logger.exception(...)`,
\* then asyncio.sleep(60)
PollerSleeps ==
    /\ poller_task.pc = "run"
    /\ invocations["poller"].pc = "returned"
    /\ poller_task' = [poller_task EXCEPT
                          !.pc = "sleep", !.wake = now + TickPeriod,
                          !.log = IF invocations["poller"].reason = "exception" THEN @ + 1 ELSE @]
    /\ invocations' = [invocations EXCEPT !["poller"] = Idle]
    /\ last_run' = invocations["poller"].reason
    /\ UNCHANGED <<now, longWaits, _PROCESSED_CHANNEL_MESSAGES, _PROCESSED_MEDIA_GROUPS,
                   _DISCUSSION_MAP, handlers, sent, forwards, db_pool, posts, daily_poll, polls,
                   ai_text, daily_poll_options_count, telegram_app, requests, shutdown, err>>

\* asyncio.sleep(60) returns: the next iteration of `while True`
PollerWakes ==
    /\ poller_task.pc = "sleep"
    /\ now >= poller_task.wake
    /\ poller_task' = [poller_task EXCEPT !.pc = "run", !.ticks = @ + 1]
    /\ UNCHANGED <<now, longWaits, _PROCESSED_CHANNEL_MESSAGES, _PROCESSED_MEDIA_GROUPS,
                   _DISCUSSION_MAP, handlers, sent, forwards, db_pool, posts, daily_poll, polls,
                   last_run, ai_text, daily_poll_options_count, invocations, telegram_app,
                   requests, shutdown, err>>

\* the loop of poller_loop with database calls that succeed
Tick == PollerCalls \/ PollerRuns \/ PollerSleeps \/ PollerWakes

\* twelve hours pass while the poller sleeps
HalfDay == poller_task.pc = "sleep" /\ \E d \in PollSteps : LongWait(d, MaxFairWaits)

NextFair == Tick \/ HalfDay

\* poller_loop goes round for as long as the process lives, and time passes
SpecFair == InitFair /\ [][NextFair]_vars /\ WF_vars(Tick) /\ WF_vars(HalfDay)

\* the table holds no row of key k, or the row is posted or skipped
Settled(k) == k \in DOMAIN daily_poll => Terminal(daily_poll[k])

\* C38: under fair non-forced ticks whose database calls succeed, every row
\* of a configured channel is eventually posted or skipped, whatever the
\* download and the publication do and whatever else is due; the row of a
\* channel that is not configured is changed by no tick and stays pending.
C38_EveryConfiguredRowTerminates ==
    /\ \A k \in {<<"C", 0>>, <<"C", 1>>} : <>Settled(k)
    /\ [](StrayKey \in DOMAIN daily_poll => daily_poll[StrayKey] = PollRow(start_dt(0)))

\* C38 witness: after midnight the row of day 0 and the row of day 1, whose
\* poll was never published, are both marked skipped, and the row of the
\* channel that is not configured is still pending.
C38_Witness ==
    /\ now = 2 * DAY
    /\ {<<"C", 0>>, <<"C", 1>>, StrayKey} \subseteq DOMAIN daily_poll
    /\ daily_poll[<<"C", 0>>].skipped_at # NoneInt
    /\ daily_poll[<<"C", 1>>].skipped_at = now
    /\ Cardinality(PostsOf(<<"C", 1>>)) = 2
    /\ polls = <<>>
    /\ ~Terminal(daily_poll[StrayKey])

---------------------------------------------------------------------------
(* The lifecycle of the service: on_shutdown *)

\* on_shutdown up to its first await: telegram_task.cancel() and
\* poller_task.cancel().  The CancelledError is raised in poller_loop at the
\* await it is suspended in, inside run_poll_once or in asyncio.sleep(60);
\* `except Exception` does not catch it.  The tasks that
\* handle_channel_photo_post created are not referenced here.
on_shutdown ==
    /\ shutdown = "idle"
    /\ poller_task' = IF poller_task.pc = "None" THEN poller_task
                      ELSE [poller_task EXCEPT !.pc = "cancelled"]
    /\ invocations' = IF poller_task.pc = "None" THEN invocations
                      ELSE [invocations EXCEPT !["poller"] = Idle]
    /\ shutdown' = IF telegram_app THEN "delete_webhook"
                   ELSE IF db_pool THEN "close_pool" ELSE "done"
    /\ UNCHANGED <<now, longWaits, _PROCESSED_CHANNEL_MESSAGES, _PROCESSED_MEDIA_GROUPS,
                   _DISCUSSION_MAP, handlers, sent, forwards, db_pool, posts, daily_poll, polls,
                   last_run, ai_text, daily_poll_options_count, telegram_app, requests, err>>

\* an await of on_shutdown returns and on_shutdown goes on to the next one
ShutdownStep(from, to) ==
    /\ shutdown = from
    /\ shutdown' = to
    /\ UNCHANGED <<now, longWaits, _PROCESSED_CHANNEL_MESSAGES, _PROCESSED_MEDIA_GROUPS,
                   _DISCUSSION_MAP, handlers, sent, forwards, db_pool, posts, daily_poll, polls,
                   last_run, ai_text, daily_poll_options_count, invocations, telegram_app, poller_task, requests, err>>

\* telegram_app.bot.delete_webhook returns, or raises and is logged
delete_webhook == ShutdownStep("delete_webhook", "stop")

\* telegram_app.stop() returns
telegram_app_stop == ShutdownStep("stop", "shutdown")

\* telegram_app.shutdown() returns; the pool is closed next when there is one
telegram_app_shutdown == ShutdownStep("shutdown", IF db_pool THEN "close_pool" ELSE "done")

\* close_pool(pool) returns
close_pool == ShutdownStep("close_pool", "done")

\* the 60 s of the poller's asyncio.sleep pass
SleepElapses ==
    /\ poller_task.pc = "sleep"
    /\ now < poller_task.wake
    /\ MayPass(poller_task.wake - now)
    /\ now' = poller_task.wake
    /\ UNCHANGED <<longWaits, _PROCESSED_CHANNEL_MESSAGES, _PROCESSED_MEDIA_GROUPS,
                   _DISCUSSION_MAP, handlers, sent, forwards, db_pool, posts, daily_poll, polls,
                   last_run, ai_text, daily_poll_options_count, invocations, telegram_app,
                   poller_task, requests, shutdown, err>>

---------------------------------------------------------------------------
(* The poller loop with database calls that may raise: C32 *)

MaxLoopTicks == 3

\* the next iteration of `while True`, for as many ticks as the model follows
LoopWakes == poller_task.ticks < MaxLoopTicks /\ PollerWakes

\* a step of poller_loop: the call of run_poll_once, one of its awaits
\* returning or raising, the except clause and the sleep
Loop ==
    \/ PollerCalls
    \/ PollerRuns
    \/ RunRaises("poller")
    \/ PollerSleeps
    \/ SleepElapses
    \/ LoopWakes

\* the steps of on_shutdown
Shutdown ==
    \/ on_shutdown
    \/ delete_webhook
    \/ telegram_app_stop
    \/ telegram_app_shutdown

NextLoop == Loop \/ Shutdown \/ close_pool

\* the event loop runs poller_loop whenever it can go on; the process may be
\* shut down at any moment
SpecLoop == InitFair /\ [][NextLoop]_vars /\ WF_vars(Loop)

\* run_poll_once has raised and poller_loop has not handled it yet
Raised == invocations["poller"].pc = "returned" /\ invocations["poller"].reason = "exception"

\* C32: an exception of run_poll_once never ends poller_loop: the loop logs
\* it and sleeps 60 s, and a task that is not cancelled goes from every tick
\* to the next one, 60 s or more after the exception.
C32_ExceptionDoesNotEndLoop ==
    /\ [][Raised /\ poller_task' # poller_task =>
             \/ poller_task'.pc = "cancelled"
             \/ /\ poller_task'.pc = "sleep"
                /\ poller_task'.wake = now + TickPeriod
                /\ poller_task'.log = poller_task.log + 1
                /\ poller_task'.ticks = poller_task.ticks]_vars
    /\ [](poller_task.pc \in {"run", "sleep", "cancelled"})
    /\ [](poller_task.pc = "run" => poller_task.wake = NoneInt \/ now >= poller_task.wake)
    /\ \A n \in 1..(MaxLoopTicks - 1) :
           (poller_task.ticks = n) ~> (poller_task.ticks = n + 1 \/ poller_task.pc = "cancelled")

\* C32 witness: the first tick raised, the loop logged it and slept, and the
\* second tick is running 60 s later.
C32_Witness ==
    /\ poller_task.ticks = 2
    /\ poller_task.log = 1
    /\ last_run = "exception"
    /\ invocations["poller"].pc \notin {"idle", "returned"}
    /\ now = DAY + 12 * HOUR + TickPeriod
    /\ shutdown = "idle"

---------------------------------------------------------------------------
(* Shutdown with comment tasks in flight: C33 *)

\* run_poll_once when state.db_pool is None or the daily poll is disabled:
\* it returns before its first await
PollerCallsWithoutPool ==
    /\ poller_task.pc = "run"
    /\ invocations["poller"].pc = "idle"
    /\ ~db_pool \/ ~daily_poll_enabled
    /\ invocations' = [invocations EXCEPT !["poller"] =
           [Idle EXCEPT !.pc = "returned", !.reason = "db_not_available_or_poll_disabled"]]
    /\ UNCHANGED <<daily_poll, polls>>
    /\ UNCHANGED InvocationFrame

\* the service runs without a database: init_telegram_in_background has set
\* telegram_app and created poller_task
InitShutdown ==
    /\ now = 0
    /\ longWaits = 0
    /\ _PROCESSED_CHANNEL_MESSAGES = EmptyDict
    /\ _PROCESSED_MEDIA_GROUPS = EmptyDict
    /\ _DISCUSSION_MAP = EmptyDict
    /\ handlers = <<>>
    /\ sent = <<>>
    /\ forwards = <<>>
    /\ db_pool = FALSE
    /\ posts = {}
    /\ daily_poll = EmptyDict
    /\ polls = <<>>
    /\ last_run = None
    /\ ai_text = UsualReply
    /\ daily_poll_options_count = 4
    /\ invocations = NoInvocations
    /\ telegram_app = TRUE
    /\ poller_task = [NoTask EXCEPT !.pc = "run", !.ticks = 1]
    /\ requests = <<>>
    /\ shutdown = "idle"
    /\ err = None

\* Updates arrive until on_shutdown is called; the handlers, the comment
\* tasks and the poller go on at their awaits while on_shutdown is at its own.
NextShutdown ==
    \/ shutdown = "idle" /\ \E msg \in ForwardedPosts : handle_channel_photo_post(msg, MaxPosts)
    \/ shutdown = "idle" /\ \E msg \in AutoForwards : handle_discussion_auto_forward(msg, MaxForwards)
    \/ Pipeline
    \/ WaitForWake
    \/ PollerCallsWithoutPool
    \/ PollerSleeps
    \/ SleepElapses
    \/ LoopWakes
    \/ Shutdown

SpecShutdown == InitShutdown /\ [][NextShutdown]_vars

\* from its first statement on, on_shutdown lets no tick of the poller start
PollerStaysCancelled ==
    [][shutdown # "idle" =>
          /\ poller_task' = poller_task
          /\ poller_task.pc = "cancelled"
          /\ invocations' = invocations]_vars

\* C33: once on_shutdown has run its cancellations no poll tick starts, and a
\* comment task that sleeps between two lookups makes no further lookup and
\* sends no message.
C33_ShutdownCancelsTasks ==
    [][shutdown # "idle" =>
          /\ poller_task'.ticks = poller_task.ticks
          /\ invocations' = invocations
          /\ \A h \in 1..Len(handlers) :
                 handlers[h].pc = "sleep" =>
                     /\ handlers'[h].i = handlers[h].i
                     /\ SendsOf(h)' = SendsOf(h)]_vars

---------------------------------------------------------------------------
(* The webhook endpoint: POST /webhook/{path_secret} *)

MaxRequests == 2

\* settings.webhook_path_secret and settings.telegram_webhook_secret_token
webhook_path_secret == "path"
telegram_webhook_secret_token == "token"

\* the path secrets a caller may use, and the values of the header
\* X-Telegram-Bot-Api-Secret-Token (None: the header is absent)
PathSecrets == {"path", "guess"}
SecretTokens == {"token", "guess", None}

\* the updates a request may carry: the channel post (C,100) and its
\* auto-forward into the discussion group
Updates ==
    {[kind |-> "channel", msg |-> msg] : msg \in FirstPost}
        \cup {[kind |-> "group", msg |-> msg] : msg \in {m \in AutoForwards : m.message_id = 555}}

\* the request got past the three checks of telegram_webhook
Admitted(r) == requests[r].status \in {"admitted", "200"}

\* the rank of an admitted request among the admitted requests of its kind:
\* the index of its handler in handlers, or of its put in forwards
Slot(r) ==
    Cardinality({q \in 1..r : Admitted(q) /\ requests[q].update.kind = requests[r].update.kind})

\* telegram_app.process_update has called the handler of the request
Dispatched(r) ==
    /\ Admitted(r)
    /\ Slot(r) <= (IF requests[r].update.kind = "channel" THEN Len(handlers) ELSE Len(forwards))

\* mutant: the handler returns when its comment task has ended
HandlerReturned_awaiting_task(h) ==
    handlers[h].pc \in {"returned", "download_failed", "CaptionFailed", "CommentSent",
                        "DiscussionUnresolved"}

\* handle_channel_photo_post has returned or raised: it is at none of its awaits
HandlerReturned(h) ==
    handlers[h].pc \notin {"cleanup", "record_post", "schedule", "download", "CaptionRequested"}

\* process_update has returned: telegram_webhook is at `return {"ok": True}`
AnswerDue(r) ==
    /\ requests[r].status = "admitted"
    /\ Dispatched(r)
    /\ requests[r].update.kind = "channel" => HandlerReturned(Slot(r))

\* init_telegram_in_background: the Application is started, telegram_app is
\* set and poller_task is created
init_telegram_in_background ==
    /\ err = None
    /\ ~telegram_app
    /\ telegram_app' = TRUE
    /\ poller_task' = IF poller_task.pc = "None" THEN [NoTask EXCEPT !.pc = "run"] ELSE poller_task
    /\ UNCHANGED <<now, longWaits, _PROCESSED_CHANNEL_MESSAGES, _PROCESSED_MEDIA_GROUPS,
                   _DISCUSSION_MAP, handlers, sent, forwards, db_pool, posts, daily_poll, polls,
                   last_run, ai_text, daily_poll_options_count, invocations, requests, shutdown, err>>

\* what telegram_webhook leaves alone up to `await request.json()`
WebhookFrame ==
    <<now, longWaits, _PROCESSED_CHANNEL_MESSAGES, _PROCESSED_MEDIA_GROUPS,
                   _DISCUSSION_MAP, handlers, sent, forwards, db_pool, posts, daily_poll, polls,
                   last_run, ai_text, daily_poll_options_count, invocations, telegram_app, poller_task, shutdown, err>>

\* mutant: the header X-Telegram-Bot-Api-Secret-Token is not compared
telegram_webhook_any_token(path_secret, x_telegram_bot_api_secret_token, update, limit) ==
    /\ Len(requests) < limit
    /\ \A q \in 1..Len(requests) : Admitted(q) => Dispatched(q)
    /\ requests' = Append(requests,
           [path_secret |-> path_secret, token |-> x_telegram_bot_api_secret_token,
            update |-> update, at |-> now, answered |-> now, app |-> telegram_app,
            status |-> IF err # None \/ ~telegram_app THEN "503"
                       ELSE IF path_secret # webhook_path_secret THEN "404"
                       ELSE "admitted"])
    /\ UNCHANGED WebhookFrame

\* A request arrives: telegram_webhook up to `await request.json()`, or to the
\* HTTPException it raises.
telegram_webhook(path_secret, x_telegram_bot_api_secret_token, update, limit) ==
    /\ Len(requests) < limit
    /\ \A q \in 1..Len(requests) : Admitted(q) => Dispatched(q)
    /\ requests' = Append(requests,
           [path_secret |-> path_secret, token |-> x_telegram_bot_api_secret_token,
            update |-> update, at |-> now, answered |-> now, app |-> telegram_app,
            status |-> IF err # None \/ ~telegram_app THEN "503"
                       ELSE IF path_secret # webhook_path_secret THEN "404"
                       ELSE IF x_telegram_bot_api_secret_token # telegram_webhook_secret_token
                            THEN "403"
                       ELSE "admitted"])
    /\ UNCHANGED WebhookFrame

\* telegram_app.process_update(update): the handler whose filter matches runs
\* up to its first await
process_update(r, limit) ==
    /\ Admitted(r)
    /\ ~Dispatched(r)
    /\ IF requests[r].update.kind = "channel"
       THEN handle_channel_photo_post(requests[r].update.msg, limit)
       ELSE handle_discussion_auto_forward(requests[r].update.msg, limit)

\* process_update returns (an exception of the handler stays inside the
\* Application) and telegram_webhook returns {"ok": True}
WebhookReturns(r) ==
    /\ AnswerDue(r)
    /\ requests' = [requests EXCEPT ![r].status = "200", ![r].answered = now]
    /\ UNCHANGED WebhookFrame

\* time passes until the next task wakes; no statement of telegram_webhook
\* that follows process_update waits
WebhookWait ==
    /\ \A r \in 1..Len(requests) : ~AnswerDue(r)
    /\ WaitForWake

\* the process starts with valid settings or with settings that fail to
\* validate; telegram_app is not set yet
InitWebhook ==
    /\ now = 0
    /\ longWaits = 0
    /\ _PROCESSED_CHANNEL_MESSAGES = EmptyDict
    /\ _PROCESSED_MEDIA_GROUPS = EmptyDict
    /\ _DISCUSSION_MAP = EmptyDict
    /\ handlers = <<>>
    /\ sent = <<>>
    /\ forwards = <<>>
    /\ db_pool = FALSE
    /\ posts = {}
    /\ daily_poll = EmptyDict
    /\ polls = <<>>
    /\ last_run = None
    /\ ai_text = UsualReply
    /\ daily_poll_options_count = 4
    /\ invocations = NoInvocations
    /\ telegram_app = FALSE
    /\ poller_task = NoTask
    /\ requests = <<>>
    /\ shutdown = "idle"
    /\ err \in {None, "ValidationError"}

\* Requests arrive before and after the Application is ready, with right and
\* wrong secrets; the admitted ones are dispatched, their handlers and tasks
\* run, and the requests are answered.
NextWebhook ==
    \/ init_telegram_in_background
    \/ \E path_secret \in PathSecrets, token \in SecretTokens, update \in Updates :
           telegram_webhook(path_secret, token, update, MaxRequests)
    \/ \E r \in 1..Len(requests) : process_update(r, MaxRequests)
    \/ \E r \in 1..Len(requests) : WebhookReturns(r)
    \/ Pipeline
    \/ WebhookWait

SpecWebhook == InitWebhook /\ [][NextWebhook]_vars

\* the admitted requests that carry a channel post and were dispatched
ChannelRequests ==
    {r \in 1..Len(requests) : Dispatched(r) /\ requests[r].update.kind = "channel"}

\* C31: the request of a channel post is answered at the instant the handler
\* created its comment task, before any retry delay has passed, and the
\* answer is never revised: it is the same 200 with the same handler outcome
\* whether the task later sends, fails to send or gives up.
C31_WebhookDoesNotWaitForTask ==
    /\ [](\A r \in ChannelRequests :
             LET h == Slot(r)
             IN  /\ Spawned(h) /\ now > handlers[h].ready =>
                        /\ requests[r].status = "200"
                        /\ requests[r].answered = handlers[h].ready
                 /\ requests[r].status = "200" /\ Spawned(h) =>
                        requests[r].answered = handlers[h].ready)
    /\ [][\A r \in 1..Len(requests) :
              requests[r].status = "200" =>
                  /\ requests'[r] = requests[r]
                  /\ requests[r].update.kind = "channel" =>
                         handlers'[Slot(r)].outcome = handlers[Slot(r)].outcome]_vars

\* C31 witness: the task gave up 27.5 s after the request was answered with 200.
C31_Witness ==
    \E r \in ChannelRequests :
        /\ handlers[Slot(r)].pc = "DiscussionUnresolved"
        /\ requests[r].status = "200"
        /\ requests[r].answered = handlers[Slot(r)].ready
        /\ now = requests[r].answered + 55

\* the request was answered with 503, 404 or 403
Refused(r) == requests[r].status \in {"503", "404", "403"}

\* C39: a request reaches the handlers only with valid settings, a started
\* Application and both secrets right; otherwise it is answered 503, 404 or
\* 403 in that order of precedence, and the step that refuses it changes
\* nothing but the record of the request: no store, no mapping, no handler
\* and no outbound call.
C39_OnlyAuthenticRequestsReachHandlers ==
    /\ [](\A r \in 1..Len(requests) :
             LET q == requests[r]
                 ready == err = None /\ q.app
             IN  /\ Admitted(r) => /\ ready
                                    /\ q.path_secret = webhook_path_secret
                                    /\ q.token = telegram_webhook_secret_token
                 /\ q.status = "503" <=> ~ready
                 /\ q.status = "404" <=> ready /\ q.path_secret # webhook_path_secret
                 /\ q.status = "403" <=> /\ ready
                                         /\ q.path_secret = webhook_path_secret
                                         /\ q.token # telegram_webhook_secret_token
                 /\ Refused(r) => ~Dispatched(r))
    /\ [](Len(handlers) + Len(forwards)
              = Cardinality({r \in 1..Len(requests) : Dispatched(r)}))
    /\ [][Len(requests') > Len(requests) /\ requests'[Len(requests')].status # "admitted" =>
              UNCHANGED <<_PROCESSED_CHANNEL_MESSAGES, _PROCESSED_MEDIA_GROUPS, _DISCUSSION_MAP,
                          handlers, sent, forwards, polls, posts, daily_poll>>]_vars
    /\ [][\A r \in 1..Len(requests) : Refused(r) => requests'[r] = requests[r]]_vars

\* C39 witness: a request with the right path and a wrong header was refused
\* with 403 while the Application was ready, the same update was then admitted
\* with both secrets right, and only the second one reached the handler.
C39_Witness ==
    /\ Len(requests) = 2
    /\ requests[1].status = "403"
    /\ requests[1].app
    /\ requests[2].status = "200"
    /\ requests[2].update = requests[1].update
    /\ requests[2].update.kind = "channel"
    /\ Len(handlers) = 1
    /\ handlers[1].at = requests[2].at


====
